---- MODULE Spec2Model ----
(***************************************************************************)
(* Model of the physical parameter-fitting and simulation engine of the    *)
(* battery/thermal power model (scripts/model_battery_soc_v2_thermal1.py,  *)
(* scripts/model_eval_ood_v2.py and the secondary correction fitters).     *)
(*                                                                         *)
(* Numbers.  The program computes in IEEE doubles; the model computes in   *)
(* integers.  Quantities are kept in the unit named in each definition     *)
(* (mV, mW, milli-degrees, SOC in 1/SocOne) and a division rounds to the   *)
(* nearest unit.  NaN and +inf are two reserved values; every operator     *)
(* that the program applies to a possibly missing value tests for them     *)
(* first, as the floating-point operation would propagate them.            *)
(***************************************************************************)
EXTENDS Integers, Sequences, FiniteSets, TLC

VARIABLES
    socDf,      \* simulate_soc: the run table df_run (sequence of samples, in t_s order)
    socCeff,    \* simulate_soc: argument c_eff_mAh
    socVer,     \* 2: model_battery_soc_v2_thermal1.simulate_soc, 1: model_battery_soc.simulate_soc
    soc,        \* simulate_soc: the list soc
    socI,       \* simulate_soc: loop index i (0-based, as in the code)
    socPc,      \* simulate_soc: "idle" | "call" | "loop" | "done" | "raised"
    tDf,        \* simulate_temperature_*: the run table df_run
    tKind,      \* 1: simulate_temperature_1state, 2: simulate_temperature_2state
    tTh,        \* the ThermalParams / ThermalParams2 argument th
    tMix,       \* argument leak_temp_mix_cpu, in 1/1000 (NaN when not finite)
    tCpuHat,    \* the list t_hat (1-state) / t_cpu_hat (2-state)
    tBattHat,   \* the list t_batt_hat (2-state; stays empty for 1-state)
    tLeakHat,   \* the returned s_leak (2-state), <<>> until the return
    tI,         \* loop index i (0-based)
    tPc,        \* "idle" | "call" | "loop" | "done"
    fDf,        \* fit_thermal_*: the run table df_run
    fKind,      \* 1: fit_thermal_1state, 2: fit_thermal_2state
    fZ1,        \* the list z (1-state) / z1 (2-state), each value times ZDen
    fX1,        \* the list x1
    fX2,        \* the list x2
    fZ2,        \* the list z2 (2-state), each value times ZDen
    fX3,        \* the list x3 (2-state)
    fX4,        \* the list x4 (2-state)
    fI,         \* loop index i (0-based)
    fPath,      \* the return statement reached: "none" | "nan_fallback" | "few_fallback" | "regression"
    fTh,        \* the returned ThermalParams / ThermalParams2 (coefficients as <<num, den>>)
    fPc,        \* "idle" | "call" | "loop" | "done"
    lDf,        \* model_eval_ood_v2.main: the table read from the input CSV
    lKept,      \* main: df after its two filters (the set of row indices kept)
    lTodo,      \* main: the run names the leave-one-run-out loop has still to hold out
    lFolds,     \* main: one record per completed eval_split call (summaries)
    lPc,        \* "idle" | "read" | "loop" | "done" | "raised"
    pAll,       \* fit_power_model_v2: the argument all_df
    pAlpha,     \* the argument alpha
    pKind,      \* the argument thermal_model (1: "1state", 2: "2state")
    pDf,        \* df after the dt_s and power_total_mW filters and the fills
    pTodo,      \* the groups of df.groupby("run_name") still to process
    pDf2,       \* t_hat_all concatenated so far, then df2
    pLeakT,     \* the column temp_leak_hat_C of pDf2
    pFeat,      \* leak_feat
    pBeta,      \* beta of the base regression: numerators and common denominator
    pP0,        \* p0_pred_mW times the denominator of beta
    pKGps,      \* k_gps_off and gps_source
    pKCell,     \* k_cell_off and cell_source
    pOut,       \* what the call returns: params and the predicted power of df2
    pPc,        \* "idle" | "call" | "thermal" | "base" | "gps" | "cell" | "predict" | "done" | "raised"
    eDf,        \* eval_split: the two tables the fold is evaluated on
    eHeld,      \* the run the fold holds out
    eAlpha,     \* the argument alpha
    eKind,      \* the argument thermal_model
    eC,         \* which of the two tables is being evaluated
    eTrain,     \* train_df
    eTest,      \* test_df
    eParams,    \* params fitted on train_df
    ePred,      \* pred: the rows of test_df with power_pred_mW
    eOut,       \* the summary of each evaluation done
    ePc,        \* "idle" | "call" | "fit" | "fitting" | "predict" | "summary" | "next" | "done"
    irDf,       \* fit_i2r_internal_resistance: the merged run table df
    irModel,    \* --model
    irRidge,    \* --ridge
    irScale,    \* --fit-scale
    irUseQc,    \* --use-only-qc-keep
    irTodo,     \* the scenarios the loop has still to hold out
    irLoss,     \* p_loss_hat_W, one entry per row of df
    irBeta,     \* beta_rows
    irOut,      \* the corrected residuals and their summary
    irPc,       \* "idle" | "start" | "fold" | "done"
    rFirst,     \* a fit called twice on one table: what the first call returned
    rCall,      \* ... and which call is running (0: no such pair of calls)
    rtArtifact, \* a fit replayed from its parameter file: the object written to model_params_v2.json
    rtPred,     \* ... the frame predict_power_v2 returns for the table with the parameters read back
    rtPc,       \* "idle" | "fit" | "dumped" | "done"
    anDf,       \* scenario_covariate_adjustment: the run-summary table, rows [scenario, y, x]
    anDrop,     \* drop_first
    anCov,      \* the covariates: <<>> or <<"x">>
    anCols,     \* colnames of the design matrix
    anFit,      \* the call fit_huber_irls(Xf, yf): [rows, X, y], NoValue before the fit
    anTodo,     \* scen_values still to be given an adjusted mean
    anAdj,      \* rows of adj: [scenario, x, beta]
    anPc,       \* "idle" | "call" | "means" | "done" | "raised"
    hY,         \* fit_huber_irls on an intercept-only design: the targets y
    hC,         \* the argument c, a fraction
    hIters,     \* the argument iters
    hBeta,      \* beta, in thousandths
    hPrev,      \* beta before the last re-solve
    hS,         \* the residual scale s of the last re-solve, a fraction in thousandths
    hW,         \* the weights w of the last re-solve, fractions
    hK,         \* how many weighted re-solves were made
    hPc,        \* "idle" | "call" | "loop" | "done"
    gTimeout,   \* ensure_device_ready: the argument timeout_s, in seconds
    gClock,     \* time.time() - t0, in seconds
    gLog,       \* the adb commands run so far, each with what it answered and when
    gPc,        \* "idle" | "call" | "start" | "poll" | "returned" | "SystemExit" | "TimeoutError" | "TimeoutExpired"
    sDuration,  \* adb_sample_power main: --duration, in seconds
    sClock,     \* time.time() since t_end was set, in seconds
    sSeq,       \* seq
    sIter,      \* how many passes of the sampling loop were begun
    sRows,      \* the rows written to the CSV file: [seq, adb_error]
    sPrev,      \* state.last before the last call of _delta_time_in_state
    sSnap,      \* the snapshot passed to the last call
    sLast,      \* state.last
    sDeltas,    \* what the last call returned
    sCalls,     \* how many calls of _delta_time_in_state were made
    sPc         \* "idle" | "setup" | "loop" | "done" | "exited"

socVars == <<socDf, socCeff, socVer, soc, socI, socPc>>
tempVars == <<tDf, tKind, tTh, tMix, tCpuHat, tBattHat, tLeakHat, tI, tPc>>

pmVars == <<pAll, pAlpha, pKind, pDf, pTodo, pDf2, pLeakT, pFeat, pBeta, pP0, pKGps, pKCell, pOut, pPc>>
evalVars == <<eDf, eHeld, eAlpha, eKind, eC, eTrain, eTest, eParams, ePred, eOut, ePc>>
looroVars == <<lDf, lKept, lTodo, lFolds, lPc>>
i2rVars == <<irDf, irModel, irRidge, irScale, irUseQc, irTodo, irLoss, irBeta, irOut, irPc>>
refitVars == <<rFirst, rCall>>
samplerVars == <<sDuration, sClock, sSeq, sIter, sRows, sPrev, sSnap, sLast, sDeltas, sCalls, sPc>>
readyVars == <<gTimeout, gClock, gLog, gPc>>
huberVars == <<hY, hC, hIters, hBeta, hPrev, hS, hW, hK, hPc>>
ancovaVars == <<anDf, anDrop, anCov, anCols, anFit, anTodo, anAdj, anPc>>
rtVars == <<rtArtifact, rtPred, rtPc>>
fitVars == <<fDf, fKind, fZ1, fX1, fX2, fZ2, fX3, fX4, fI, fPath, fTh, fPc>>

vars == <<socDf, socCeff, socVer, soc, socI, socPc,
          tDf, tKind, tTh, tMix, tCpuHat, tBattHat, tLeakHat, tI, tPc,
          fDf, fKind, fZ1, fX1, fX2, fZ2, fX3, fX4, fI, fPath, fTh, fPc,
          lDf, lKept, lTodo, lFolds, lPc,
          pAll, pAlpha, pKind, pDf, pTodo, pDf2, pLeakT, pFeat, pBeta, pP0, pKGps, pKCell, pOut, pPc,
          eDf, eHeld, eAlpha, eKind, eC, eTrain, eTest, eParams, ePred, eOut, ePc,
          irDf, irModel, irRidge, irScale, irUseQc, irTodo, irLoss, irBeta, irOut, irPc,
          rFirst, rCall,
          rtArtifact, rtPred, rtPc,
          anDf, anDrop, anCov, anCols, anFit, anTodo, anAdj, anPc,
          hY, hC, hIters, hBeta, hPrev, hS, hW, hK, hPc,
          gTimeout, gClock, gLog, gPc,
          sDuration, sClock, sSeq, sIter, sRows, sPrev, sSnap, sLast, sDeltas, sCalls, sPc>>

-----------------------------------------------------------------------------
(* Floating-point special values and Python/pandas helpers *)

NaN == -2147483647
PosInf == 2000000000
NegInf == 0 - PosInf

IsNaN(x) == x = NaN
\* np.isfinite
IsFinite(x) == x # NaN /\ x # PosInf /\ x # NegInf

\* Rounded quotient a / b for b > 0 (nearest, halves up).
RoundDiv(a, b) == (a + (b \div 2)) \div b

\* Python's builtin max(a, b): b if b > a else a, so a NaN second argument loses.
PyMax(a, b) == IF (~IsNaN(a)) /\ (~IsNaN(b)) /\ b > a THEN b ELSE a
\* Python's builtin min(a, b): b if b < a else a.
PyMin(a, b) == IF (~IsNaN(a)) /\ (~IsNaN(b)) /\ b < a THEN b ELSE a

Col(df, c) == [k \in 1..Len(df) |-> df[k][c]]

\* Series.fillna(d)
FillNa(col, d) == [k \in 1..Len(col) |-> IF IsNaN(col[k]) THEN d ELSE col[k]]

\* Series.ffill(): a missing value takes the last valid value before it.
RECURSIVE FFillAt(_, _)
FFillAt(col, k) ==
    IF k = 0 THEN NaN
    ELSE IF ~IsNaN(col[k]) THEN col[k] ELSE FFillAt(col, k - 1)
FFill(col) == [k \in 1..Len(col) |-> FFillAt(col, k)]

\* Series.bfill(): a missing value takes the first valid value after it.
RECURSIVE BFillAt(_, _)
BFillAt(col, k) ==
    IF k > Len(col) THEN NaN
    ELSE IF ~IsNaN(col[k]) THEN col[k] ELSE BFillAt(col, k + 1)
BFill(col) == [k \in 1..Len(col) |-> BFillAt(col, k)]

NotNaAny(col) == \E k \in 1..Len(col) : ~IsNaN(col[k])
IsNaAll(col) == ~NotNaAny(col)

\* Series.dropna().iloc[0]
RECURSIVE FirstValidFrom(_, _)
FirstValidFrom(col, k) ==
    IF k > Len(col) THEN NaN
    ELSE IF ~IsNaN(col[k]) THEN col[k] ELSE FirstValidFrom(col, k + 1)
FirstValid(col) == FirstValidFrom(col, 1)

\* Sorted sequence of the valid values of a column (for median()).
RECURSIVE InsertSorted(_, _)
InsertSorted(s, x) ==
    IF s = <<>> THEN <<x>>
    ELSE IF x <= Head(s) THEN <<x>> \o s
    ELSE <<Head(s)>> \o InsertSorted(Tail(s), x)
RECURSIVE SortValidFrom(_, _)
SortValidFrom(col, k) ==
    IF k > Len(col) THEN <<>>
    ELSE IF IsNaN(col[k]) THEN SortValidFrom(col, k + 1)
    ELSE InsertSorted(SortValidFrom(col, k + 1), col[k])

\* Series.median() / np.nanmedian: NaN are skipped; an even count averages the
\* two middle values; no valid value gives NaN.
Median(col) ==
    LET s == SortValidFrom(col, 1)
        n == Len(s)
    IN  IF n = 0 THEN NaN
        ELSE IF n % 2 = 1 THEN s[(n + 1) \div 2]
        ELSE RoundDiv(s[n \div 2] + s[(n \div 2) + 1], 2)

ConstCol(n, x) == [k \in 1..n |-> x]
\* A column whose first reading is missing / whose last reading is missing.
LeadNaNCol(n, x) == [k \in 1..n |-> IF k = 1 THEN NaN ELSE x]
TailNaNCol(n, x) == [k \in 1..n |-> IF k = n /\ n > 1 THEN NaN ELSE x]
\* x, a missing value, then y
MidNaNCol(n, x, y) == [k \in 1..n |-> IF k = 1 THEN x ELSE IF k = 2 THEN NaN ELSE y]

-----------------------------------------------------------------------------
(* simulate_soc *)

\* SOC is held in units of 1/SocOne (SocOne is the program's 1.0).
SocOne == 1000
\* 3.85 V, the nominal voltage, in mV.
NominalMilliVolt == 3850

\* dt = _col_num(df, "dt_s").fillna(0.0)
SocDt(df) == FillNa(Col(df, "dt_s"), 0)

\* v = (voltage_mV / 1000).ffill().bfill().fillna(median or 3.85); kept in mV here,
\* the division by 1000 is made in DSoc.
SocVBackFirst(df) ==
    LET v == Col(df, "voltage_mV")
    IN  FillNa(FFill(BFill(v)), IF NotNaAny(v) THEN Median(v) ELSE NominalMilliVolt)
SocV(df) ==
    LET v == Col(df, "voltage_mV")
    IN  FillNa(BFill(FFill(v)), IF NotNaAny(v) THEN Median(v) ELSE NominalMilliVolt)

\* p = power_pred_mW.ffill().bfill()  (v2); v1 predicts p from filled columns.
SocP(df) == BFill(FFill(Col(df, "power_pred_mW")))

\* soc0 = first measured soc_pct / 100, or 0.5 when none is measured (v2).
Soc0(df) ==
    LET s == Col(df, "soc_pct")
    IN  IF NotNaAny(s) THEN (FirstValid(s) * SocOne) \div 100 ELSE SocOne \div 2

\* The loop's test "not np.isfinite(dti) or dti <= 0" negated (v2);
\* v1 tests only "dt <= 0".
SocDtValidV1(dti) == dti > 0
SocDtValid(dti) == IsFinite(dti) /\ dti > 0

\* vi = v[i], replaced by 3.85 when not finite or <= 0.
SocVoltNoFallback(vi) == vi
SocVolt(vi) == IF (~IsFinite(vi)) \/ vi <= 0 THEN NominalMilliVolt ELSE vi

\* dsoc = (pi / (vi * denom)) * dti with denom = 3600 * c_eff_mAh and vi in volts,
\* in units of 1/SocOne:  pi*dti*1000*SocOne / (vi_mV*3600*c)  (a factor 100 cancelled).
\* IEEE: NaN propagates, x*inf is +-inf and 0*inf is NaN.
DSoc(pi, vi, dti, c) ==
    IF IsNaN(pi) \/ vi = 0 THEN NaN
    ELSE IF dti = PosInf
         THEN (IF pi = 0 THEN NaN
               ELSE IF (pi > 0) = (vi > 0) THEN PosInf ELSE NegInf)
    ELSE LET num == pi * dti * 10 * SocOne
             den == vi * 36 * c
         IN  IF den > 0 THEN RoundDiv(num, den) ELSE 0 - RoundDiv(num, 0 - den)

\* soc[-1] - dsoc
SocMinus(prev, dsoc) ==
    IF IsNaN(dsoc) THEN NaN
    ELSE IF dsoc = PosInf THEN NegInf
    ELSE IF dsoc = NegInf THEN PosInf
    ELSE prev - dsoc

\* soc_next = min(1.0, max(0.0, soc_next))
SocClampNoFloor(x) == PyMin(SocOne, x)
SocClamp(x) == PyMin(SocOne, PyMax(0, x))

DtOk(ver, dti) == IF ver = 1 THEN SocDtValidV1(dti) ELSE SocDtValid(dti)

\* One pass of the loop body for index i (0-based): the value appended to soc.
SocAppend(df, c, ver, prev, i) ==
    LET dti == SocDt(df)[i + 1]
    IN  IF ~DtOk(ver, dti) THEN prev
        ELSE SocClamp(SocMinus(prev,
                 DSoc(SocP(df)[i + 1], SocVolt(SocV(df)[i + 1]), dti, c)))

\* Lines up to "soc = [soc0]".  v1 takes .dropna().iloc[0] with no guard and
\* raises IndexError when no soc_pct is measured.
SocBegin ==
    /\ socPc = "call"
    /\ IF socVer = 1 /\ IsNaAll(Col(socDf, "soc_pct"))
       THEN /\ socPc' = "raised"
            /\ UNCHANGED <<soc, socI>>
       ELSE /\ soc' = <<Soc0(socDf)>>
            /\ socI' = 0
            /\ socPc' = "loop"
    /\ UNCHANGED <<socDf, socCeff, socVer>>

\* for i in range(len(df) - 1): the branch that repeats the previous state.
SocStepHold ==
    /\ socPc = "loop"
    /\ socI < Len(socDf) - 1
    /\ ~DtOk(socVer, SocDt(socDf)[socI + 1])
    /\ soc' = Append(soc, SocAppend(socDf, socCeff, socVer, soc[Len(soc)], socI))
    /\ socI' = socI + 1
    /\ UNCHANGED <<socDf, socCeff, socVer, socPc>>

\* ... and the branch that integrates one Euler step.
SocStepEuler ==
    /\ socPc = "loop"
    /\ socI < Len(socDf) - 1
    /\ DtOk(socVer, SocDt(socDf)[socI + 1])
    /\ soc' = Append(soc, SocAppend(socDf, socCeff, socVer, soc[Len(soc)], socI))
    /\ socI' = socI + 1
    /\ UNCHANGED <<socDf, socCeff, socVer, socPc>>

\* df["soc_sim"] = np.asarray(soc); return df
SocReturn ==
    /\ socPc = "loop"
    /\ socI >= Len(socDf) - 1
    /\ socPc' = "done"
    /\ UNCHANGED <<socDf, socCeff, socVer, soc, socI>>

SocNext == SocBegin \/ SocStepHold \/ SocStepEuler \/ SocReturn

\* Inputs.  A sample's soc_pct is a battery level in percent (0..100) or missing.
MaxSocLen == 3
PowerStep == 3600
DtVals == {NaN, -1, 2, PosInf}
PowerVals == {0 - PowerStep, 0, PowerStep}
VoltVals == {0, -4000, 4000}
SocPctVals == {0, 50, 100}

SocDtCols(n) == [1..n -> DtVals]
SocPowerCols(n) ==
    {ConstCol(n, p) : p \in PowerVals \cup {NaN}}
        \cup {LeadNaNCol(n, PowerStep), [k \in 1..n |-> IF k % 2 = 1 THEN PowerStep ELSE 0 - PowerStep]}
SocVoltCols(n) ==
    {ConstCol(n, v) : v \in VoltVals \cup {NaN}}
        \cup {LeadNaNCol(n, 4000), TailNaNCol(n, 4000), MidNaNCol(n, 4000, 3000)}
SocPctCols(n) ==
    {ConstCol(n, s) : s \in SocPctVals \cup {NaN}} \cup {LeadNaNCol(n, 50)}

SocTables ==
    UNION {
        { [k \in 1..n |-> [dt_s |-> d[k], voltage_mV |-> v[k],
                           power_pred_mW |-> p[k], soc_pct |-> s[k]]] :
            <<d, v, p, s>> \in SocDtCols(n) \X SocVoltCols(n) \X SocPowerCols(n) \X SocPctCols(n) }
        : n \in 1..MaxSocLen }

SocInit ==
    /\ socDf \in SocTables
    /\ socCeff = 1
    /\ socVer \in {1, 2}
    /\ (socVer = 1 => \A k \in 1..Len(socDf) : ~IsNaN(socDf[k].power_pred_mW))
    /\ soc = <<>>
    /\ socI = 0
    /\ socPc = "call"

SocIdle ==
    /\ socDf = <<>>
    /\ socCeff = 1
    /\ socVer = 2
    /\ soc = <<>>
    /\ socI = 0
    /\ socPc = "idle"

-----------------------------------------------------------------------------
(* simulate_temperature_1state, simulate_temperature_2state *)

\* Temperatures are held in milli-degrees C, the coefficients a (1/s), b (C/J)
\* and b_couple (1/s) in units of 1/Micro.
Micro == 1000000
\* leak_temp_mix_cpu is held in 1/MixOne; 0.7 is its default.
MixOne == 1000
MixDefault == 700

\* p_heat_W = np.clip(power_cpu_mW.fillna(0), 0, None) / 1000; kept in mW here.
HeatOf(pcpu) == IF IsNaN(pcpu) THEN 0 ELSE IF pcpu < 0 THEN 0 ELSE pcpu
PHeat(df) == [k \in 1..Len(df) |-> HeatOf(df[k].power_cpu_mW)]

\* t0 = first valid measured temperature, else th.t_amb_C
TStart(col, th) ==
    LET m == BFill(FFill(col)) IN IF NotNaAny(m) THEN FirstValid(m) ELSE th.t_amb_C

TempDtValidNoFinite(dti) == dti > 0
TempDtValid(dti) == IsFinite(dti) /\ dti > 0

\* (x * dti) / Micro for a rate x in micro-units per second; an infinite dti
\* gives +-inf, or NaN for a zero rate (IEEE).
RateStep(x, dti) ==
    IF dti = PosInf THEN (IF x = 0 THEN NaN ELSE IF x > 0 THEN PosInf ELSE NegInf)
    ELSE RoundDiv(x * dti, Micro)

FAdd(x, y) ==
    IF IsNaN(x) \/ IsNaN(y) THEN NaN
    ELSE IF ~IsFinite(y) THEN y
    ELSE IF ~IsFinite(x) THEN x
    ELSE x + y

\* t_next = Ti + (a*(Ti - t_amb) + b*p_heat_W) * dti
\* (a state that is already not finite stays not finite: it is carried as NaN)
T1Next(th, Ti, heat, dti) ==
    IF ~IsFinite(Ti) THEN NaN
    ELSE FAdd(Ti, RateStep(th.a_per_s * (Ti - th.t_amb_C) + th.b_C_per_J * heat, dti))

\* Tcpu + (a_cpu*(Tcpu - Tb) + b_cpu*p_heat_W) * dti
T2CpuNext(th, Tcpu, Tb, heat, dti) ==
    IF (~IsFinite(Tcpu)) \/ (~IsFinite(Tb)) THEN NaN
    ELSE FAdd(Tcpu, RateStep(th.a_cpu_per_s * (Tcpu - Tb) + th.b_cpu_C_per_J * heat, dti))

\* Tb + (a_batt*(Tb - t_amb) + b_couple*(Tcpu - Tb)) * dti
T2BattNext(th, Tcpu, Tb, dti) ==
    IF (~IsFinite(Tcpu)) \/ (~IsFinite(Tb)) THEN NaN
    ELSE FAdd(Tb, RateStep(th.a_batt_per_s * (Tb - th.t_amb_C)
                           + th.b_couple_per_s * (Tcpu - Tb), dti))

\* w = leak_temp_mix_cpu, 0.7 when not finite, clipped to [0, 1]
MixW(w) ==
    LET w1 == IF ~IsFinite(w) THEN MixDefault ELSE w
    IN  IF w1 < 0 THEN 0 ELSE IF w1 > MixOne THEN MixOne ELSE w1

\* s_leak = w * s_cpu + (1 - w) * s_batt
LeakMixUnclipped(w, tcpu, tbatt) ==
    IF (~IsFinite(tcpu)) \/ (~IsFinite(tbatt)) THEN NaN
    ELSE RoundDiv((IF IsFinite(w) THEN w ELSE MixDefault) * tcpu
                      + (MixOne - (IF IsFinite(w) THEN w ELSE MixDefault)) * tbatt, MixOne)
LeakMix(w, tcpu, tbatt) ==
    IF (~IsFinite(tcpu)) \/ (~IsFinite(tbatt)) THEN NaN
    ELSE RoundDiv(MixW(w) * tcpu + (MixOne - MixW(w)) * tbatt, MixOne)

TempBegin ==
    /\ tPc = "call"
    /\ tCpuHat' = <<TStart(Col(tDf, "temperature_cpu_C"), tTh)>>
    /\ tBattHat' = IF tKind = 2 THEN <<TStart(Col(tDf, "temperature_C"), tTh)>> ELSE <<>>
    /\ tI' = 0
    /\ tPc' = "loop"
    /\ UNCHANGED <<tDf, tKind, tTh, tMix, tLeakHat>>

\* The loop branch "not np.isfinite(dti) or dti <= 0": repeat the previous state.
TempStepHold ==
    /\ tPc = "loop"
    /\ tI < Len(tDf) - 1
    /\ ~TempDtValid(SocDt(tDf)[tI + 1])
    /\ tCpuHat' = Append(tCpuHat, tCpuHat[Len(tCpuHat)])
    /\ tBattHat' = IF tKind = 2 THEN Append(tBattHat, tBattHat[Len(tBattHat)]) ELSE tBattHat
    /\ tI' = tI + 1
    /\ UNCHANGED <<tDf, tKind, tTh, tMix, tLeakHat, tPc>>

\* One explicit Euler step of the 1-state model.
Temp1StepEuler ==
    /\ tPc = "loop"
    /\ tKind = 1
    /\ tI < Len(tDf) - 1
    /\ TempDtValid(SocDt(tDf)[tI + 1])
    /\ tCpuHat' = Append(tCpuHat,
            T1Next(tTh, tCpuHat[Len(tCpuHat)], PHeat(tDf)[tI + 1], SocDt(tDf)[tI + 1]))
    /\ tI' = tI + 1
    /\ UNCHANGED <<tDf, tKind, tTh, tMix, tBattHat, tLeakHat, tPc>>

\* One explicit Euler step of the 2-state model (both nodes from the previous state).
Temp2StepEuler ==
    /\ tPc = "loop"
    /\ tKind = 2
    /\ tI < Len(tDf) - 1
    /\ TempDtValid(SocDt(tDf)[tI + 1])
    /\ LET Tcpu == tCpuHat[Len(tCpuHat)]
           Tb == tBattHat[Len(tBattHat)]
           dti == SocDt(tDf)[tI + 1]
       IN  /\ tCpuHat' = Append(tCpuHat, T2CpuNext(tTh, Tcpu, Tb, PHeat(tDf)[tI + 1], dti))
           /\ tBattHat' = Append(tBattHat, T2BattNext(tTh, Tcpu, Tb, dti))
    /\ tI' = tI + 1
    /\ UNCHANGED <<tDf, tKind, tTh, tMix, tLeakHat, tPc>>

\* return pd.Series(t_hat) / (s_cpu, s_batt, s_leak)
TempReturn ==
    /\ tPc = "loop"
    /\ tI >= Len(tDf) - 1
    /\ tLeakHat' = IF tKind = 2
                   THEN [k \in 1..Len(tCpuHat) |-> LeakMix(tMix, tCpuHat[k], tBattHat[k])]
                   ELSE <<>>
    /\ tPc' = "done"
    /\ UNCHANGED <<tDf, tKind, tTh, tMix, tCpuHat, tBattHat, tI>>

TempNext == TempBegin \/ TempStepHold \/ Temp1StepEuler \/ Temp2StepEuler \/ TempReturn

MaxTempLen == 3
TempCpuCols(n) == {ConstCol(n, t) : t \in {NaN, 25000, 27000}} \cup {LeadNaNCol(n, 27000)}
TempBattCols(n) == {ConstCol(n, t) : t \in {NaN, 24000, 26000}}
TempHeatCols(n) == {ConstCol(n, q) : q \in {NaN, 0, 1000, -500}}

TempTables ==
    UNION {
        { [k \in 1..n |-> [dt_s |-> d[k], temperature_cpu_C |-> c[k],
                           temperature_C |-> b[k], power_cpu_mW |-> q[k]]] :
            <<d, c, b, q>> \in SocDtCols(n) \X TempCpuCols(n) \X TempBattCols(n) \X TempHeatCols(n) }
        : n \in 1..MaxTempLen }

\* ThermalParams values: the fitter's fallback (a = -1/2000, b = 0) and a fitted one.
Thermal1Vals ==
    {[a_per_s |-> -500, b_C_per_J |-> 0, t_amb_C |-> 24000],
     [a_per_s |-> -250000, b_C_per_J |-> 500000, t_amb_C |-> 25000]}
Thermal2Vals ==
    {[a_cpu_per_s |-> -5000, b_cpu_C_per_J |-> 0, a_batt_per_s |-> -500,
      b_couple_per_s |-> 0, t_amb_C |-> 24000],
     [a_cpu_per_s |-> -250000, b_cpu_C_per_J |-> 500000, a_batt_per_s |-> -125000,
      b_couple_per_s |-> 250000, t_amb_C |-> 24000]}

TempInit ==
    /\ tDf \in TempTables
    /\ tKind \in {1, 2}
    /\ tTh \in (IF tKind = 1 THEN Thermal1Vals ELSE Thermal2Vals)
    /\ tMix \in (IF tKind = 1 THEN {MixDefault} ELSE {MixDefault, NaN, 1500})
    /\ tCpuHat = <<>>
    /\ tBattHat = <<>>
    /\ tLeakHat = <<>>
    /\ tI = 0
    /\ tPc = "call"

TempIdle ==
    /\ tDf = <<>>
    /\ tKind = 1
    /\ tTh = [a_per_s |-> -500, b_C_per_J |-> 0, t_amb_C |-> 24000]
    /\ tMix = MixDefault
    /\ tCpuHat = <<>>
    /\ tBattHat = <<>>
    /\ tLeakHat = <<>>
    /\ tI = 0
    /\ tPc = "idle"

-----------------------------------------------------------------------------
(* fit_thermal_1state, fit_thermal_2state *)

\* Units of the fitter.  The tables hold temperatures in milli-degrees C and powers
\* in mW, as everywhere; the regression works on temperature differences in
\* 1/Deci degree C and on the heating power p_heat_W in 1/Deci W (the input tables
\* hold multiples of these), dt_s in seconds; the coefficients a (1/s) and b (C/J)
\* keep their values under this common scaling of both regressors.  The
\* ridge term alpha = 1/AlphaInv on degrees and watts is Deci*Deci/AlphaInv =
\* 1/RidgeK on these units, so RidgeK * (X'X + alpha I) = RidgeK * X'X + I is an
\* integer matrix and the solution of the linear system is an exact fraction.
Deci == 10
AlphaInv == 1000
RidgeK == AlphaInv \div (Deci * Deci)
\* "if len(z) < 10"
MinPairs == 10
\* 40.0 C, the ambient temperature of a run with no temperature reading
AmbDefault == 40 * 1000
\* A temperature difference in milli-degrees, in 1/Deci degree.
ToDeci(x) == (x * Deci) \div 1000
\* z = dT / dti is held as the integer ZDen * dT / dti (every usable dt_s of the
\* input tables divides ZDen).
ZDen == 2

\* A fraction <<num, den>> with den > 0.
Rat(n, d) == <<n, d>>
RatNeg(r) == r[1] < 0
RatPos(r) == r[1] > 0
\* r >= -1e-6, that is  -num * 1000000 <= den
RatGeMinusMicro(r) == r[1] >= 0 \/ (0 - r[1]) <= (r[2] \div 1000000)

RECURSIVE SumProd(_, _, _)
SumProd(x, y, k) == IF k = 0 THEN 0 ELSE x[k] * y[k] + SumProd(x, y, k - 1)
Dot(x, y) == SumProd(x, y, Len(x))

\* _ridge_fit(column_stack([xa, xb]), z, alpha): the solution of
\* (X'X + alpha I) beta = X'z by Cramer's rule, on the system times RidgeK.
RidgeA11(xa, xb) == RidgeK * Dot(xa, xa) + 1
RidgeA12(xa, xb) == RidgeK * Dot(xa, xb)
RidgeA22(xa, xb) == RidgeK * Dot(xb, xb) + 1
RidgeDet(xa, xb) == RidgeA11(xa, xb) * RidgeA22(xa, xb) - RidgeA12(xa, xb) * RidgeA12(xa, xb)
RidgeFit2(xa, xb, z) ==
    LET c1 == RidgeK * Dot(xa, z)
        c2 == RidgeK * Dot(xb, z)
        det == RidgeDet(xa, xb)
    IN  << Rat(c1 * RidgeA22(xa, xb) - RidgeA12(xa, xb) * c2, ZDen * det),
           Rat(RidgeA11(xa, xb) * c2 - RidgeA12(xa, xb) * c1, ZDen * det) >>

\* t_meas = _col_num(df, col).ffill().bfill()
FitMeas(df, c) == BFill(FFill(Col(df, c)))
\* t = t_meas.fillna(t_meas.median())
FitT(df, c) == FillNa(FitMeas(df, c), Median(FitMeas(df, c)))
\* p_heat_W = np.clip(power_cpu_mW.fillna(0), 0, None) / 1000, in 1/Deci W
FitHeat(df) == [k \in 1..Len(df) |-> (HeatOf(df[k].power_cpu_mW) * Deci) \div 1000]

\* np.nanmin
RECURSIVE NanMinFrom(_, _)
NanMinFrom(col, k) ==
    IF k > Len(col) THEN NaN
    ELSE LET r == NanMinFrom(col, k + 1)
         IN  IF IsNaN(col[k]) THEN r
             ELSE IF IsNaN(r) THEN col[k]
             ELSE IF col[k] < r THEN col[k] ELSE r
NanMin(col) == NanMinFrom(col, 1)

\* t_amb = nanmin(t); if not finite: nanmedian(t) if finite else 40.0
FitAmb(t) ==
    IF IsFinite(NanMin(t)) THEN NanMin(t)
    ELSE IF IsFinite(Median(t)) THEN Median(t) ELSE AmbDefault

\* The column the ambient temperature is taken from.
FitAmbCol(kind) == IF kind = 1 THEN "temperature_cpu_C" ELSE "temperature_C"

\* "if t_meas.isna().all()" (1-state), "t_cpu_s.isna().all() or t_batt_s.isna().all()"
FitNoTemp(df, kind) ==
    IF kind = 1 THEN IsNaAll(FitMeas(df, "temperature_cpu_C"))
    ELSE IsNaAll(FitMeas(df, "temperature_cpu_C")) \/ IsNaAll(FitMeas(df, "temperature_C"))

\* The parameters of the two early returns.
Fallback1(tamb) == [a_per_s |-> Rat(-1, 2000), b_C_per_J |-> Rat(0, 1), t_amb_C |-> tamb]
Fallback2(tamb) ==
    [a_cpu_per_s |-> Rat(-1, 200), b_cpu_C_per_J |-> Rat(0, 1),
     a_batt_per_s |-> Rat(-1, 2000), b_couple_per_s |-> Rat(0, 1), t_amb_C |-> tamb]

\* t_amb of the return taken when no temperature is valid
FitNoTempAmb(df, kind) ==
    IF kind = 1 THEN AmbDefault
    ELSE IF NotNaAny(FitMeas(df, "temperature_cpu_C"))
         THEN Median(FitMeas(df, "temperature_cpu_C")) ELSE AmbDefault

\* "if not np.isfinite(a) or a >= -1e-6: a = -1/2000"  (the solution of the
\* positive definite system over finite data is finite)
ClampCool1(r) == IF RatGeMinusMicro(r) THEN Rat(-1, 2000) ELSE r
\* "if not np.isfinite(b) or b < 0: b = 0"
ClampGain(r) == IF RatNeg(r) THEN Rat(0, 1) ELSE r
\* "if not np.isfinite(a_cpu) or a_cpu > 0: a_cpu = -1/2000", a_batt: -1/5000
ClampCool2Off(r, den) == r
ClampCool2(r, den) == IF RatPos(r) THEN Rat(-1, den) ELSE r

\* "z = []": a list local to the call starts empty, whatever an earlier call
\* left behind.
NewListStale(stale) == stale
NewList(stale) == <<>>

FitBegin ==
    /\ fPc = "call"
    /\ IF FitNoTemp(fDf, fKind)
       THEN /\ fTh' = (IF fKind = 1 THEN Fallback1(FitNoTempAmb(fDf, 1))
                       ELSE Fallback2(FitNoTempAmb(fDf, 2)))
            /\ fPath' = "nan_fallback"
            /\ fPc' = "done"
       ELSE /\ fPc' = "loop"
            /\ UNCHANGED <<fTh, fPath>>
    /\ fI' = 0
    /\ fZ1' = NewList(fZ1) /\ fX1' = NewList(fX1) /\ fX2' = NewList(fX2)
    /\ fZ2' = NewList(fZ2) /\ fX3' = NewList(fX3) /\ fX4' = NewList(fX4)
    /\ UNCHANGED <<fDf, fKind>>

\* for i in range(len(t) - 1): "if not np.isfinite(dti) or dti <= 0: continue"
FitLoopSkip ==
    /\ fPc = "loop"
    /\ fI < Len(fDf) - 1
    /\ ~TempDtValid(SocDt(fDf)[fI + 1])
    /\ fI' = fI + 1
    /\ UNCHANGED <<fDf, fKind, fZ1, fX1, fX2, fZ2, fX3, fX4, fPath, fTh, fPc>>

\* The finite-difference sample of index k (1-based) of the filled columns:
\* z = (t[k+1] - t[k]) / dt[k], x = t[k] - amb, x = t[k] - u[k].
FitZAt(t, dt, k) == (ToDeci(t[k + 1] - t[k]) * ZDen) \div dt[k]
FitExcessAt(t, amb, k) == ToDeci(t[k] - amb)
FitGapAt(t, u, k) == ToDeci(t[k] - u[k])

\* ... else append one finite-difference sample to every list.
FitLoopTake ==
    /\ fPc = "loop"
    /\ fI < Len(fDf) - 1
    /\ TempDtValid(SocDt(fDf)[fI + 1])
    /\ LET k == fI + 1
           dt == SocDt(fDf)
           tc == FitT(fDf, "temperature_cpu_C")
           tb == FitT(fDf, "temperature_C")
       IN  IF fKind = 1
           THEN /\ fZ1' = Append(fZ1, FitZAt(tc, dt, k))
                /\ fX1' = Append(fX1, FitExcessAt(tc, FitAmb(tc), k))
                /\ fX2' = Append(fX2, FitHeat(fDf)[k])
                /\ UNCHANGED <<fZ2, fX3, fX4>>
           ELSE /\ fZ1' = Append(fZ1, FitZAt(tc, dt, k))
                /\ fX1' = Append(fX1, FitGapAt(tc, tb, k))
                /\ fX2' = Append(fX2, FitHeat(fDf)[k])
                /\ fZ2' = Append(fZ2, FitZAt(tb, dt, k))
                /\ fX3' = Append(fX3, FitExcessAt(tb, FitAmb(tb), k))
                /\ fX4' = Append(fX4, FitGapAt(tc, tb, k))
    /\ fI' = fI + 1
    /\ UNCHANGED <<fDf, fKind, fPath, fTh, fPc>>

\* "len(z) < 10"  /  "len(z1) < 10 or len(z2) < 10"
FitTooFewAtTen(kind, z1, z2) ==
    IF kind = 1 THEN Len(z1) <= MinPairs ELSE Len(z1) <= MinPairs \/ Len(z2) <= MinPairs
FitTooFew(kind, z1, z2) ==
    IF kind = 1 THEN Len(z1) < MinPairs ELSE Len(z1) < MinPairs \/ Len(z2) < MinPairs

\* "if len(z) < 10: return ThermalParams(-1/2000, 0, t_amb)"
FitReturnFew ==
    /\ fPc = "loop"
    /\ fI >= Len(fDf) - 1
    /\ FitTooFew(fKind, fZ1, fZ2)
    /\ fTh' = (IF fKind = 1 THEN Fallback1(FitAmb(FitT(fDf, FitAmbCol(1))))
               ELSE Fallback2(FitAmb(FitT(fDf, FitAmbCol(2)))))
    /\ fPath' = "few_fallback"
    /\ fPc' = "done"
    /\ UNCHANGED <<fDf, fKind, fZ1, fX1, fX2, fZ2, fX3, fX4, fI>>

\* The ridge regression(s) and the sign clamps on the lists of a run.
FitRegression(df, kind, z1, x1, x2, z2, x3, x4) ==
    IF kind = 1
    THEN LET beta == RidgeFit2(x1, x2, z1)
         IN  [a_per_s |-> ClampCool1(beta[1]),
              b_C_per_J |-> ClampGain(beta[2]),
              t_amb_C |-> FitAmb(FitT(df, FitAmbCol(1)))]
    ELSE LET beta1 == RidgeFit2(x1, x2, z1)
             beta2 == RidgeFit2(x3, x4, z2)
         IN  [a_cpu_per_s |-> ClampCool2(beta1[1], 2000),
              b_cpu_C_per_J |-> ClampGain(beta1[2]),
              a_batt_per_s |-> ClampCool2(beta2[1], 5000),
              b_couple_per_s |-> ClampGain(beta2[2]),
              t_amb_C |-> FitAmb(FitT(df, FitAmbCol(2)))]

\* ... and the final return.
FitReturnRegression ==
    /\ fPc = "loop"
    /\ fI >= Len(fDf) - 1
    /\ ~FitTooFew(fKind, fZ1, fZ2)
    /\ fTh' = FitRegression(fDf, fKind, fZ1, fX1, fX2, fZ2, fX3, fX4)
    /\ fPath' = "regression"
    /\ fPc' = "done"
    /\ UNCHANGED <<fDf, fKind, fZ1, fX1, fX2, fZ2, fX3, fX4, fI>>

\* The whole call as a function of the run, for the callers that fit every run
\* of a table (fit_power_model_v2, predict_power_v2).
RECURSIVE FitUsableFrom(_, _)
FitUsableFrom(df, k) ==
    IF k > Len(df) - 1 THEN <<>>
    ELSE IF TempDtValid(SocDt(df)[k]) THEN <<k>> \o FitUsableFrom(df, k + 1)
    ELSE FitUsableFrom(df, k + 1)
FitUsable(df) == FitUsableFrom(df, 1)
FitThermalOf(df, kind) ==
    IF FitNoTemp(df, kind)
    THEN (IF kind = 1 THEN Fallback1(FitNoTempAmb(df, 1)) ELSE Fallback2(FitNoTempAmb(df, 2)))
    ELSE LET u == FitUsable(df)
             dt == SocDt(df)
             tc == FitT(df, "temperature_cpu_C")
             tb == FitT(df, "temperature_C")
             heat == FitHeat(df)
             ambc == FitAmb(tc)
             ambb == FitAmb(tb)
             z1 == [j \in 1..Len(u) |-> FitZAt(tc, dt, u[j])]
             x1 == [j \in 1..Len(u) |->
                       IF kind = 1 THEN FitExcessAt(tc, ambc, u[j]) ELSE FitGapAt(tc, tb, u[j])]
             x2 == [j \in 1..Len(u) |-> heat[u[j]]]
             z2 == IF kind = 1 THEN <<>> ELSE [j \in 1..Len(u) |-> FitZAt(tb, dt, u[j])]
             x3 == IF kind = 1 THEN <<>> ELSE [j \in 1..Len(u) |-> FitExcessAt(tb, ambb, u[j])]
             x4 == IF kind = 1 THEN <<>> ELSE [j \in 1..Len(u) |-> FitGapAt(tc, tb, u[j])]
         IN  IF FitTooFew(kind, z1, z2)
             THEN (IF kind = 1 THEN Fallback1(ambc) ELSE Fallback2(ambb))
             ELSE FitRegression(df, kind, z1, x1, x2, z2, x3, x4)

\* Input runs: up to MaxFitLen samples in t_s order.
MaxFitLen == 12
MaxBadDt == 2
TempBase == 25 * 1000
\* dt_s: the first nb values unusable, the others a usable step
FitDtCols(n) ==
    {[k \in 1..n |-> IF k <= nb THEN bad ELSE good] :
        <<nb, bad, good>> \in (0..MaxBadDt) \X {NaN, 0, PosInf} \X {1, 2}}
\* A temperature that halves its excess over TempBase at every sample
Halving(k) == 100 * (IF k = 1 THEN 8 ELSE IF k = 2 THEN 4 ELSE IF k = 3 THEN 2 ELSE IF k = 4 THEN 1 ELSE 0)
\* ... that rises by one unit per sample up to 8 units
Rising(k) == 100 * (IF k > 8 THEN 8 ELSE k - 1)
\* ... that rises for four samples and then decays
Pulse(k) == IF k <= 5 THEN 200 * (k - 1) ELSE Halving(k - 4)
FitCpuCols(n) ==
    {ConstCol(n, NaN), ConstCol(n, TempBase),
     [k \in 1..n |-> TempBase + Halving(k)],
     [k \in 1..n |-> TempBase + Rising(k)],
     [k \in 1..n |-> IF k = 1 THEN NaN ELSE TempBase + Pulse(k)]}
FitBattCols(n) ==
    {ConstCol(n, NaN), ConstCol(n, TempBase),
     [k \in 1..n |-> TempBase + 100 * (Rising(k) \div 200)],
     [k \in 1..n |-> TempBase + Halving(k)]}
\* power_cpu_mW: missing, off, on, on for the first four samples
FitHeatCols(n) ==
    {ConstCol(n, NaN), ConstCol(n, 0), ConstCol(n, 500),
     [k \in 1..n |-> IF k <= 4 THEN 800 ELSE 0]}

FitTables(kind) ==
    UNION {
        { [k \in 1..n |-> [dt_s |-> d[k], temperature_cpu_C |-> c[k],
                           temperature_C |-> b[k], power_cpu_mW |-> q[k]]] :
            <<d, c, b, q>> \in FitDtCols(n) \X FitCpuCols(n)
                \X (IF kind = 1 THEN {ConstCol(n, TempBase)} ELSE FitBattCols(n)) \X FitHeatCols(n) }
        : n \in 0..MaxFitLen }

NoParams == [none |-> TRUE]

FitInit ==
    /\ fKind \in {1, 2}
    /\ fDf \in FitTables(fKind)
    /\ fZ1 = <<>> /\ fX1 = <<>> /\ fX2 = <<>>
    /\ fZ2 = <<>> /\ fX3 = <<>> /\ fX4 = <<>>
    /\ fI = 0
    /\ fPath = "none"
    /\ fTh = NoParams
    /\ fPc = "call"

FitIdle ==
    /\ fKind = 1
    /\ fDf = <<>>
    /\ fZ1 = <<>> /\ fX1 = <<>> /\ fX2 = <<>>
    /\ fZ2 = <<>> /\ fX3 = <<>> /\ fX4 = <<>>
    /\ fI = 0
    /\ fPath = "none"
    /\ fTh = NoParams
    /\ fPc = "idle"

-----------------------------------------------------------------------------
(* Exact fractions, the 4-column ridge solve and the leak feature *)

Abs(x) == IF x < 0 THEN 0 - x ELSE x
RECURSIVE Gcd(_, _)
Gcd(a, b) == IF b = 0 THEN a ELSE CHOOSE g \in {Gcd(x[1], x[2]) : x \in {<<b, a % b>>}} : TRUE
\* The fraction n / d (d > 0) in lowest terms.
RatNorm(n, d) == LET g == Gcd(Abs(n), d) IN <<n \div g, d \div g>>
RatAdd(a, b) ==
    LET g == Gcd(a[2], b[2])
    IN  RatNorm(a[1] * (b[2] \div g) + b[1] * (a[2] \div g), (a[2] \div g) * b[2])
RatSub(a, b) == RatAdd(a, <<0 - b[1], b[2]>>)
RatTimes(a, k) == RatNorm(a[1] * k, a[2])
\* Python's min(0.0, x)
RatMin0Off(a) == a
RatMin0(a) == IF a[1] < 0 THEN a ELSE Rat(0, 1)

\* A coefficient as the simulators use it, in 1/Micro (nearest below).
RatToMicro(r) ==
    IF r[2] >= Micro THEN r[1] \div (r[2] \div Micro)
    ELSE LET t == r[1] * 1000
         IN  (t \div r[2]) * 1000 + ((t % r[2]) * 1000) \div r[2]

Det3(m) ==
      m[1][1] * (m[2][2] * m[3][3] - m[2][3] * m[3][2])
    - m[1][2] * (m[2][1] * m[3][3] - m[2][3] * m[3][1])
    + m[1][3] * (m[2][1] * m[3][2] - m[2][2] * m[3][1])
\* The 3x3 matrix left of m without row 1 and column j
Minor1(m, j) == [r \in 1..3 |-> [c \in 1..3 |-> m[r + 1][IF c < j THEN c ELSE c + 1]]]
Det4(m) ==
      m[1][1] * Det3(Minor1(m, 1)) - m[1][2] * Det3(Minor1(m, 2))
    + m[1][3] * Det3(Minor1(m, 3)) - m[1][4] * Det3(Minor1(m, 4))
ReplaceCol(m, j, b) == [r \in 1..4 |-> [c \in 1..4 |-> IF c = j THEN b[r] ELSE m[r][c]]]

RECURSIVE SumXX(_, _, _, _)
SumXX(X, i, j, r) == IF r = 0 THEN 0 ELSE X[r][i] * X[r][j] + SumXX(X, i, j, r - 1)
RECURSIVE SumXy(_, _, _, _)
SumXy(X, y, i, r) == IF r = 0 THEN 0 ELSE X[r][i] * y[r] + SumXy(X, y, i, r - 1)

\* _ridge_fit(X, y, alpha) for a 4-column X: A = X'X + ridge, b = X'y,
\* np.linalg.solve(A, b) by Cramer's rule.  The result is the four numerators
\* and the common denominator det(A) > 0.  ridge[i] is alpha in the unit of
\* column i.
RidgeFit4(X, y, ridge) ==
    LET A == [i \in 1..4 |-> [j \in 1..4 |->
                 SumXX(X, i, j, Len(X)) + (IF i = j THEN ridge[i] ELSE 0)]]
        b == [i \in 1..4 |-> SumXy(X, y, i, Len(X))]
    IN  [num |-> [j \in 1..4 |-> Det4(ReplaceCol(A, j, b))], den |-> Det4(A)]

\* The leak feature exp(leak_gamma_per_C * (T - t_ref)) with leak_gamma_per_C =
\* ln 2 / 10 C (the default doubling temperature): 2^(d / LeakDoubling) for d in
\* milli-degrees, held in 1/LeakUnit, exact at every whole doubling and
\* interpolated linearly between two doublings.
LeakUnit == 4
LeakDoubling == 10000
Pow2(n) == IF n <= 0 THEN 1 ELSE IF n = 1 THEN 2 ELSE IF n = 2 THEN 4 ELSE IF n = 3 THEN 8
           ELSE IF n = 4 THEN 16 ELSE IF n = 5 THEN 32 ELSE IF n = 6 THEN 64 ELSE 128
LeakFeat(T, tref) ==
    IF (~IsFinite(T)) \/ (~IsFinite(tref)) THEN NaN
    ELSE LET d == T - tref
             q == d \div LeakDoubling
             r == d % LeakDoubling
             s == IF q < -4 THEN 0 ELSE IF q > 3 THEN 7 ELSE q + 4
         IN  RoundDiv(LeakUnit * Pow2(s) * (LeakDoubling + r), 16 * LeakDoubling)

\* simulate_temperature_1state / _2state as functions of the run and of the
\* fitted parameters (coefficients in 1/Micro).
ThMicro(kind, th) ==
    IF kind = 1
    THEN [a_per_s |-> RatToMicro(th.a_per_s), b_C_per_J |-> RatToMicro(th.b_C_per_J),
          t_amb_C |-> th.t_amb_C]
    ELSE [a_cpu_per_s |-> RatToMicro(th.a_cpu_per_s),
          b_cpu_C_per_J |-> RatToMicro(th.b_cpu_C_per_J),
          a_batt_per_s |-> RatToMicro(th.a_batt_per_s),
          b_couple_per_s |-> RatToMicro(th.b_couple_per_s), t_amb_C |-> th.t_amb_C]

RECURSIVE SimT1At(_, _, _)
SimT1At(df, th, k) ==
    IF k = 1 THEN TStart(Col(df, "temperature_cpu_C"), th)
    ELSE LET prev == SimT1At(df, th, k - 1)
             dti == SocDt(df)[k - 1]
         IN  IF ~TempDtValid(dti) THEN prev
             ELSE T1Next(th, prev, PHeat(df)[k - 1], dti)
RECURSIVE SimT2At(_, _, _)
SimT2At(df, th, k) ==
    IF k = 1 THEN <<TStart(Col(df, "temperature_cpu_C"), th),
                    TStart(Col(df, "temperature_C"), th)>>
    ELSE LET prev == SimT2At(df, th, k - 1)
             dti == SocDt(df)[k - 1]
         IN  IF ~TempDtValid(dti) THEN prev
             ELSE <<T2CpuNext(th, prev[1], prev[2], PHeat(df)[k - 1], dti),
                    T2BattNext(th, prev[1], prev[2], dti)>>
\* temp_leak_hat_C of every sample of the run
SimLeakTemp(df, kind, th, mix) ==
    [k \in 1..Len(df) |->
        IF kind = 1 THEN SimT1At(df, th, k)
        ELSE LET s == SimT2At(df, th, k) IN LeakMix(mix, s[1], s[2])]

-----------------------------------------------------------------------------
(* fit_power_model_v2 *)

\* Powers are held in mW, the flags is_gps_on / cellular_on as 0 or 1, the leak
\* feature in 1/LeakUnit.  A fitted coefficient is an exact fraction <<num, den>>.

\* The run names the offsets are calibrated on.
GpsOffRun == "20260201_213514_S4"
GpsOnRun == "20260201_215338_S4-1"
CellOnRun == "20260131_230812_S1-HS-1"
CellOffRun == "20260201_174510_S1-HS-2"
OtherRun == "20260201_120000_S2-1"
\* All run names of the input tables, in sorted() order (groupby iterates so).
PmNameOrder == <<CellOnRun, OtherRun, CellOffRun, GpsOffRun, GpsOnRun>>
PmRank(name) == CHOOSE j \in 1..Len(PmNameOrder) : PmNameOrder[j] = name
\* c_eff_mAh of the returned parameters
CEffDefault == 4410

FillOne(x, d) == IF IsNaN(x) THEN d ELSE x

\* df["dt_s"] = dt_s.fillna(0); df = df[dt_s > 0]; df = df[power_total_mW.notna()];
\* screen, cpu and is_gps_on filled with 0, cellular_on with 1.
PmCleanRow(r) ==
    [r EXCEPT !.dt_s = FillOne(r.dt_s, 0),
              !.power_screen_mW = FillOne(r.power_screen_mW, 0),
              !.power_cpu_mW = FillOne(r.power_cpu_mW, 0),
              !.is_gps_on = FillOne(r.is_gps_on, 0),
              !.cellular_on = FillOne(r.cellular_on, 1)]
PmKeepRow(r) == FillOne(r.dt_s, 0) > 0 /\ ~IsNaN(r.power_total_mW)
PmClean(all) ==
    LET kept == SelectSeq(all, PmKeepRow) IN [k \in 1..Len(kept) |-> PmCleanRow(kept[k])]

\* The group keys of df.groupby("run_name"), in iteration order.
RECURSIVE PmSortNames(_)
PmSortNames(names) ==
    IF names = {} THEN <<>>
    ELSE LET first == CHOOSE x \in names : \A y \in names : PmRank(x) <= PmRank(y)
         IN  <<first>> \o PmSortNames(names \ {first})
PmNames(df) == PmSortNames({df[k].run_name : k \in 1..Len(df)})
\* One group g (its rows are in t_s order).
PmRunOfWhole(df, name) == df
PmRunOf(df, name) == LET InRun(r) == r.run_name = name IN SelectSeq(df, InRun)

\* The per-run thermal fit and simulation: temp_leak_hat_C of the run's samples.
PmRunLeakTemp(g, kind, mix) == SimLeakTemp(g, kind, ThMicro(kind, FitThermalOf(g, kind)), mix)

\* df2 = pd.concat(t_hat_all): the runs one after the other, and its column
\* temp_leak_hat_C.
RECURSIVE PmConcatFrom(_, _, _)
PmConcatFrom(df, names, j) ==
    IF j > Len(names) THEN <<>>
    ELSE PmRunOf(df, names[j]) \o PmConcatFrom(df, names, j + 1)
PmDf2(df) == PmConcatFrom(df, PmNames(df), 1)
RECURSIVE PmLeakTempFrom(_, _, _, _, _)
PmLeakTempFrom(df, names, kind, mix, j) ==
    IF j > Len(names) THEN <<>>
    ELSE PmRunLeakTemp(PmRunOf(df, names[j]), kind, mix)
             \o PmLeakTempFrom(df, names, kind, mix, j + 1)
PmLeakTemp(df, kind, mix) == PmLeakTempFrom(df, PmNames(df), kind, mix, 1)

\* t_ref = nanmedian(temp_leak_hat_C); leak_feat = exp(gamma * (temp_leak_hat_C - t_ref))
PmLeakFeat(leakT) ==
    LET tref == Median(leakT) IN [k \in 1..Len(leakT) |-> LeakFeat(leakT[k], tref)]

\* m_base = (is_gps_on >= 0.5) & (cellular_on >= 0.5)
PmBaseRowAll(r) == TRUE
PmBaseRow(r) == 2 * r.is_gps_on >= 1 /\ 2 * r.cellular_on >= 1
RECURSIVE PmBaseIdxFrom(_, _)
PmBaseIdxFrom(df2, k) ==
    IF k > Len(df2) THEN <<>>
    ELSE IF PmBaseRow(df2[k]) THEN <<k>> \o PmBaseIdxFrom(df2, k + 1)
    ELSE PmBaseIdxFrom(df2, k + 1)
PmBaseIdx(df2) == PmBaseIdxFrom(df2, 1)

\* beta = _ridge_fit(X, y, alpha) on the base rows, X = [1, screen, cpu, leak_feat].
\* The leak column is held in 1/LeakUnit, so its coefficient is k_leak / LeakUnit
\* and its ridge term alpha * LeakUnit^2.
PmBeta(df2, feat, alpha) ==
    LET idx == PmBaseIdx(df2)
        X == [j \in 1..Len(idx) |->
                 <<1, df2[idx[j]].power_screen_mW, df2[idx[j]].power_cpu_mW, feat[idx[j]]>>]
        y == [j \in 1..Len(idx) |-> df2[idx[j]].power_total_mW]
    IN  RidgeFit4(X, y, <<alpha, alpha, alpha, alpha * LeakUnit * LeakUnit>>)

\* p0 = p_base + k_screen*screen + k_cpu*cpu + k_leak*leak_feat, times beta.den
PmP0Num(df2, feat, beta) ==
    [k \in 1..Len(df2) |->
        beta.num[1] + beta.num[2] * df2[k].power_screen_mW
            + beta.num[3] * df2[k].power_cpu_mW + beta.num[4] * feat[k]]
\* resid0_mW = power_total_mW - p0_pred_mW, times beta.den
PmResidNum(df2, p0num, beta) ==
    [k \in 1..Len(df2) |-> df2[k].power_total_mW * beta.den - p0num[k]]

\* _run_mean_resid(run): None (held as 0/0) when the run has no row in df2
RatNone == <<0, 0>>
RECURSIVE PmSumRun(_, _, _, _)
PmSumRun(df2, col, name, k) ==
    IF k = 0 THEN 0
    ELSE (IF df2[k].run_name = name THEN col[k] ELSE 0) + PmSumRun(df2, col, name, k - 1)
PmRunSize(df2, name) == Cardinality({k \in 1..Len(df2) : df2[k].run_name = name})
PmRunMeanResid(df2, resid, beta, name) ==
    IF PmRunSize(df2, name) = 0 THEN RatNone
    ELSE LET g == Gcd(Abs(PmSumRun(df2, resid, name, Len(df2))), beta.den)
         IN  RatNorm(PmSumRun(df2, resid, name, Len(df2)) \div g,
                     (beta.den \div g) * PmRunSize(df2, name))

\* "if r_off is not None and r_on is not None: k = min(0.0, r_off - r_on) else 0.0"
PmOffsetSwapped(rOff, rOn) ==
    IF rOff # RatNone /\ rOn # RatNone THEN RatMin0(RatSub(rOn, rOff)) ELSE Rat(0, 1)
PmOffset(rOff, rOn) ==
    IF rOff # RatNone /\ rOn # RatNone THEN RatMin0(RatSub(rOff, rOn)) ELSE Rat(0, 1)
PmSourceAlways(rOff, rOn, label) == label
PmSource(rOff, rOn, label) == IF rOff # RatNone /\ rOn # RatNone THEN label ELSE "none"

\* power_pred_mW = p0 + k_gps_off*(1 - is_gps_on) + k_cell_off*(1 - cellular_on)
PmPredOffsetAlways(df2, p0num, beta, kGps, kCell) ==
    [k \in 1..Len(df2) |-> RatAdd(RatNorm(p0num[k], beta.den), RatAdd(kGps, kCell))]
PmPred(df2, p0num, beta, kGps, kCell) ==
    [k \in 1..Len(df2) |->
        RatAdd(RatNorm(p0num[k], beta.den),
               RatAdd(RatTimes(kGps, 1 - df2[k].is_gps_on),
                      RatTimes(kCell, 1 - df2[k].cellular_on)))]

\* ModelParamsV2(...)
PmParams(beta, tref, kGps, kCell) ==
    [p_base_mW |-> RatNorm(beta.num[1], beta.den),
     k_screen |-> RatNorm(beta.num[2], beta.den),
     k_cpu |-> RatNorm(beta.num[3], beta.den),
     k_leak_mW |-> RatTimes(RatNorm(beta.num[4], beta.den), LeakUnit),
     leak_doubling_C |-> LeakDoubling,
     leak_tref_C |-> tref,
     k_gps_off_mW |-> kGps,
     k_cellular_off_mW |-> kCell,
     c_eff_mAh |-> CEffDefault]

\* "df = all_df.copy()": what the function writes into df before it rebinds the
\* name does not reach the frame of the caller.
CallerFrameAliased(frame, written) == written
CallerFrame(frame, written) == frame
\* df["dt_s"] = _col_num(df, "dt_s").fillna(0.0), the one write before df is rebound
PmDtFilled(all) ==
    SubSeq([k \in 1..Len(all) |-> [all[k] EXCEPT !.dt_s = FillOne(all[k].dt_s, 0)]], 1, Len(all))

\* The filters, the empty lists thermal_rows and t_hat_all, and the list of groups.
PmPrepare ==
    /\ pPc = "call"
    /\ pAll' = CallerFrame(pAll, PmDtFilled(pAll))
    /\ pDf' = PmClean(pAll)
    /\ pTodo' = PmNames(PmClean(pAll))
    /\ pDf2' = NewList(pDf2)
    /\ pLeakT' = NewList(pLeakT)
    /\ pPc' = "thermal"
    /\ UNCHANGED <<pAlpha, pKind, pFeat, pBeta, pP0, pKGps, pKCell, pOut>>

\* One iteration of "for run_name, g in df.groupby('run_name')".
PmThermalRun ==
    /\ pPc = "thermal"
    /\ pTodo # <<>>
    /\ pDf2' = pDf2 \o PmRunOf(pDf, Head(pTodo))
    /\ pLeakT' = pLeakT \o PmRunLeakTemp(PmRunOf(pDf, Head(pTodo)), pKind, MixDefault)
    /\ pTodo' = Tail(pTodo)
    /\ UNCHANGED <<pAll, pAlpha, pKind, pDf, pFeat, pBeta, pP0, pKGps, pKCell, pOut, pPc>>

\* df2 = pd.concat(t_hat_all) raises ValueError on an empty list.
PmConcatRaises ==
    /\ pPc = "thermal"
    /\ pTodo = <<>>
    /\ pDf2 = <<>>
    /\ pPc' = "raised"
    /\ UNCHANGED <<pAll, pAlpha, pKind, pDf, pTodo, pDf2, pLeakT, pFeat, pBeta, pP0, pKGps, pKCell, pOut>>

\* t_ref and leak_feat.
PmLeak ==
    /\ pPc = "thermal"
    /\ pTodo = <<>>
    /\ pDf2 # <<>>
    /\ pFeat' = PmLeakFeat(pLeakT)
    /\ pPc' = "base"
    /\ UNCHANGED <<pAll, pAlpha, pKind, pDf, pTodo, pDf2, pLeakT, pBeta, pP0, pKGps, pKCell, pOut>>

\* The base regression, p0_pred_mW and resid0_mW.
PmBase ==
    /\ pPc = "base"
    /\ pBeta' = PmBeta(pDf2, pFeat, pAlpha)
    /\ pP0' = PmP0Num(pDf2, pFeat, PmBeta(pDf2, pFeat, pAlpha))
    /\ pPc' = "gps"
    /\ UNCHANGED <<pAll, pAlpha, pKind, pDf, pTodo, pDf2, pLeakT, pFeat, pKGps, pKCell, pOut>>

\* The GPS-OFF offset from the residual means of the two S4 runs.
PmGps ==
    /\ pPc = "gps"
    /\ LET resid == PmResidNum(pDf2, pP0, pBeta)
           rOff == PmRunMeanResid(pDf2, resid, pBeta, GpsOffRun)
           rOn == PmRunMeanResid(pDf2, resid, pBeta, GpsOnRun)
       IN  pKGps' = [k |-> PmOffset(rOff, rOn), source |-> PmSource(rOff, rOn, "S4_minus_S4-1")]
    /\ pPc' = "cell"
    /\ UNCHANGED <<pAll, pAlpha, pKind, pDf, pTodo, pDf2, pLeakT, pFeat, pBeta, pP0, pKCell, pOut>>

\* The cellular-OFF offset from the residual means of the two S1 runs.
PmCell ==
    /\ pPc = "cell"
    /\ LET resid == PmResidNum(pDf2, pP0, pBeta)
           rOff == PmRunMeanResid(pDf2, resid, pBeta, CellOffRun)
           rOn == PmRunMeanResid(pDf2, resid, pBeta, CellOnRun)
       IN  pKCell' = [k |-> PmOffset(rOff, rOn), source |-> PmSource(rOff, rOn, "S1-HS-2_minus_S1-HS-1")]
    /\ pPc' = "predict"
    /\ UNCHANGED <<pAll, pAlpha, pKind, pDf, pTodo, pDf2, pLeakT, pFeat, pBeta, pP0, pKGps, pOut>>

\* power_pred_mW, the parameters and the return.
PmReturn ==
    /\ pPc = "predict"
    /\ pOut' = [params |-> PmParams(pBeta, Median(pLeakT), pKGps.k, pKCell.k),
                power_pred_mW |-> PmPred(pDf2, pP0, pBeta, pKGps.k, pKCell.k),
                gps_fit_source |-> pKGps.source,
                cell_fit_source |-> pKCell.source]
    /\ pPc' = "done"
    /\ UNCHANGED <<pAll, pAlpha, pKind, pDf, pTodo, pDf2, pLeakT, pFeat, pBeta, pP0, pKGps, pKCell>>

\* A column with every element computed.
Listed(col) == SubSeq(col, 1, Len(col))

PmRaised == [raised |-> TRUE]

\* Input tables: at most MaxPmRuns runs, each of one of the shapes below, listed
\* in the order of PmCsvOrder; alpha is the ridge argument.
MaxPmRuns == 3
PmAlphas == {1, 3}
PmCsvOrder == <<GpsOnRun, OtherRun, GpsOffRun, CellOffRun, CellOnRun>>
PmShapes ==
    {  \* three samples, the first colder and with dt_s = 0, everything on
     [y |-> <<5, 5, 7>>, scr |-> <<1, 1, 2>>, cpu |-> <<1, 1, 1>>, gps |-> 1, cell |-> 1,
      temp |-> <<15000, 25000, 25000>>, tb |-> <<24000, 24000, 24000>>, dt |-> <<0, 2, 2>>],
       \* the same samples with GPS off and a lower measured power
     [y |-> <<1, 4, 5>>, scr |-> <<1, 1, 2>>, cpu |-> <<1, 1, 1>>, gps |-> 0, cell |-> 1,
      temp |-> <<15000, 25000, 25000>>, tb |-> <<24000, 24000, 24000>>, dt |-> <<0, 2, 2>>],
       \* the same samples with GPS off and a higher measured power
     [y |-> <<6, 6, 8>>, scr |-> <<1, 1, 2>>, cpu |-> <<1, 1, 1>>, gps |-> 0, cell |-> 1,
      temp |-> <<15000, 25000, 25000>>, tb |-> <<24000, 24000, 24000>>, dt |-> <<0, 2, 2>>],
       \* a warmer run with cellular off
     [y |-> <<3, 6>>, scr |-> <<0, 2>>, cpu |-> <<2, 1>>, gps |-> 1, cell |-> 0,
      temp |-> <<35000, 35000>>, tb |-> <<NaN, NaN>>, dt |-> <<2, 2>>],
       \* missing values: one sample without measured power, one with dt_s = 0
     [y |-> <<3, NaN, 6>>, scr |-> <<NaN, 1, 2>>, cpu |-> <<2, 0, NaN>>, gps |-> NaN, cell |-> NaN,
      temp |-> <<NaN, 35000, 35000>>, tb |-> <<24000, 24000, 24000>>, dt |-> <<2, 2, 0>>],
       \* no usable sample: every dt_s missing, and no GPS flag
     [y |-> <<5, 7>>, scr |-> <<1, 2>>, cpu |-> <<1, 1>>, gps |-> NaN, cell |-> 1,
      temp |-> <<25000, 25000>>, tb |-> <<24000, 24000>>, dt |-> <<NaN, NaN>>],
       \* a warm run with GPS and cellular both off
     [y |-> <<2, 3>>, scr |-> <<0, 2>>, cpu |-> <<2, 1>>, gps |-> 0, cell |-> 0,
      temp |-> <<35000, 35000>>, tb |-> <<NaN, NaN>>, dt |-> <<2, 2>>],
       \* an idle run: constant 25 C and no CPU power, everything on
     [y |-> <<6, 8>>, scr |-> <<1, 2>>, cpu |-> <<0, 0>>, gps |-> 1, cell |-> 1,
      temp |-> <<TempBase, TempBase>>, tb |-> <<TempBase, TempBase>>, dt |-> <<2, 2>>] }
PmRunRows(name, p) ==
    [k \in 1..Len(p.y) |->
        [run_name |-> name, dt_s |-> p.dt[k], power_total_mW |-> p.y[k],
         power_screen_mW |-> p.scr[k], power_cpu_mW |-> p.cpu[k],
         is_gps_on |-> p.gps, cellular_on |-> p.cell,
         temperature_cpu_C |-> p.temp[k], temperature_C |-> p.tb[k]]]
RECURSIVE PmTableFrom(_, _)
PmTableFrom(f, j) ==
    IF j > Len(PmCsvOrder) THEN <<>>
    ELSE (IF PmCsvOrder[j] \in DOMAIN f THEN PmRunRows(PmCsvOrder[j], f[PmCsvOrder[j]]) ELSE <<>>)
             \o PmTableFrom(f, j + 1)
PmNameSets == {S \in SUBSET {PmNameOrder[j] : j \in 1..Len(PmNameOrder)} : Cardinality(S) <= MaxPmRuns}
\* The run outside the two pairs has no subsystem recorded as off; only the
\* cellular-OFF run has both off; only the run outside the pairs is idle.
PmShapeFits(name, p) ==
    /\ name = OtherRun => (p.gps # 0 /\ p.cell # 0)
    /\ (p.gps = 0 /\ p.cell = 0) => name = CellOffRun
    /\ p.cpu = <<0, 0>> => name = OtherRun
PmTables ==
    UNION {{PmTableFrom(f, 1) : f \in {g \in [S -> PmShapes] : \A n \in S : PmShapeFits(n, g[n])}} :
              S \in PmNameSets}

NoValue == <<>>

PmInit ==
    /\ pAll \in PmTables
    /\ pAlpha \in PmAlphas
    /\ pKind \in {1, 2}
    /\ pDf = <<>> /\ pTodo = <<>> /\ pDf2 = <<>> /\ pLeakT = <<>> /\ pFeat = <<>>
    /\ pBeta = NoValue /\ pP0 = <<>> /\ pKGps = NoValue /\ pKCell = NoValue /\ pOut = NoValue
    /\ pPc = "call"

PmIdle ==
    /\ pAll = <<>>
    /\ pAlpha = 1
    /\ pKind = 1
    /\ pDf = <<>> /\ pTodo = <<>> /\ pDf2 = <<>> /\ pLeakT = <<>> /\ pFeat = <<>>
    /\ pBeta = NoValue /\ pP0 = <<>> /\ pKGps = NoValue /\ pKCell = NoValue /\ pOut = NoValue
    /\ pPc = "idle"

-----------------------------------------------------------------------------
(* model_eval_ood_v2: predict_power_v2 and eval_split *)

\* The fills at the head of predict_power_v2; no row is dropped and dt_s is left
\* as it is.
PredFillRow(r) ==
    [r EXCEPT !.power_screen_mW = FillOne(r.power_screen_mW, 0),
              !.power_cpu_mW = FillOne(r.power_cpu_mW, 0),
              !.is_gps_on = FillOne(r.is_gps_on, 0),
              !.cellular_on = FillOne(r.cellular_on, 1)]
PredFill(all) == [k \in 1..Len(all) |-> PredFillRow(all[k])]

\* power_pred_mW of one sample: p0 + k_gps_off*(1 - is_gps_on) + k_cellular_off*(1 - cellular_on)
\* with p0 = p_base + k_screen*screen + k_cpu*cpu + k_leak*leak_feat; NaN (RatNone)
\* when the simulated temperature is.
PredOne(r, T, q) ==
    IF IsNaN(LeakFeat(T, q.leak_tref_C)) THEN RatNone
    ELSE RatAdd(RatAdd(RatAdd(q.p_base_mW, RatTimes(q.k_screen, r.power_screen_mW)),
                       RatAdd(RatTimes(q.k_cpu, r.power_cpu_mW),
                              RatNorm(q.k_leak_mW[1] * LeakFeat(T, q.leak_tref_C),
                                      q.k_leak_mW[2] * LeakUnit))),
                RatAdd(RatTimes(q.k_gps_off_mW, 1 - r.is_gps_on),
                       RatTimes(q.k_cellular_off_mW, 1 - r.cellular_on)))
\* One group of predict_power_v2: the run's rows with their power_pred_mW.
PredRun(g, q, kind, mix) ==
    LET leakT == Listed(PmRunLeakTemp(g, kind, mix))
    IN  [k \in 1..Len(g) |-> [row |-> g[k], power_pred_mW |-> PredOne(g[k], leakT[k], q)]]
RECURSIVE PredFrom(_, _, _, _, _, _)
PredFrom(df, names, q, kind, mix, j) ==
    IF j > Len(names) THEN <<>>
    ELSE PredRun(PmRunOf(df, names[j]), q, kind, mix) \o PredFrom(df, names, q, kind, mix, j + 1)
\* predict_power_v2(df_all, params): pd.concat(out_rows)
PredictPower(all, q, kind, mix) == PredFrom(PredFill(all), PmNames(all), q, kind, mix, 1)

\* train_df = all_df.loc[train_mask]; test_df = all_df.loc[~train_mask]
RECURSIVE MaskRows(_, _, _, _)
MaskRows(all, mask, want, k) ==
    IF k > Len(all) THEN <<>>
    ELSE (IF mask[k] = want THEN <<all[k]>> ELSE <<>>) \o MaskRows(all, mask, want, k + 1)
\* The table handed to fit_power_model_v2: train_df.
EvalFitArgAll(all, train) == all
EvalFitArg(all, train) == train
EvalTrainDf(all, mask) == MaskRows(all, mask, TRUE, 1)
EvalTestDf(all, mask) == MaskRows(all, mask, FALSE, 1)
\* The mask main builds for a held-out run: run_name != held.
EvalMask(all, held) == [k \in 1..Len(all) |-> all[k].run_name # held]

\* Per-sample MAE over the rows with measured and predicted power; NaN (RatNone)
\* when there is none.
RatAbs(a) == <<Abs(a[1]), a[2]>>
PredScored(p) == ~IsNaN(p.row.power_total_mW) /\ p.power_pred_mW # RatNone
RECURSIVE AbsErrSum(_, _)
AbsErrSum(pred, k) ==
    IF k = 0 THEN Rat(0, 1)
    ELSE IF PredScored(pred[k])
         THEN RatAdd(RatAbs(RatSub(pred[k].power_pred_mW, Rat(pred[k].row.power_total_mW, 1))),
                     AbsErrSum(pred, k - 1))
    ELSE AbsErrSum(pred, k - 1)
EvalMae(pred) ==
    LET n == Cardinality({k \in 1..Len(pred) : PredScored(pred[k])})
    IN  IF n = 0 THEN RatNone
        ELSE RatNorm(AbsErrSum(pred, Len(pred))[1], AbsErrSum(pred, Len(pred))[2] * n)

\* The fold is evaluated on each of two tables in turn (eC = 1, 2).
EvalPartition ==
    /\ ePc = "call"
    /\ eTrain' = EvalTrainDf(eDf[eC], EvalMask(eDf[eC], eHeld))
    /\ eTest' = EvalTestDf(eDf[eC], EvalMask(eDf[eC], eHeld))
    /\ ePc' = "fit"
    /\ UNCHANGED <<eDf, eHeld, eAlpha, eKind, eC, eParams, ePred, eOut>>

\* The call fit_power_model_v2(train_df, alpha=alpha, ...): the fitter starts on
\* train_df (its steps are PmPrepare .. PmReturn).
EvalCallFit ==
    /\ ePc = "fit"
    /\ pAll' = EvalFitArg(eDf[eC], eTrain)
    /\ pAlpha' = eAlpha
    /\ pKind' = eKind
    /\ pDf' = <<>> /\ pTodo' = <<>> /\ pDf2' = <<>> /\ pLeakT' = <<>> /\ pFeat' = <<>>
    /\ pBeta' = NoValue /\ pP0' = <<>> /\ pKGps' = NoValue /\ pKCell' = NoValue /\ pOut' = NoValue
    /\ pPc' = "call"
    /\ ePc' = "fitting"
    /\ UNCHANGED <<eDf, eHeld, eAlpha, eKind, eC, eTrain, eTest, eParams, ePred, eOut>>

\* params, _, _ = fit_power_model_v2(...)
EvalFitReturns ==
    /\ ePc = "fitting"
    /\ pPc = "done"
    /\ eParams' = pOut.params
    /\ pPc' = "idle"
    /\ ePc' = "predict"
    /\ UNCHANGED <<eDf, eHeld, eAlpha, eKind, eC, eTrain, eTest, ePred, eOut>>
    /\ UNCHANGED <<pAll, pAlpha, pKind, pDf, pTodo, pDf2, pLeakT, pFeat, pBeta, pP0, pKGps, pKCell, pOut>>

\* fit_power_model_v2 raises: eval_split ends without a summary.
EvalFitRaises ==
    /\ ePc = "fitting"
    /\ pPc = "raised"
    /\ eOut' = Append(eOut, PmRaised)
    /\ pPc' = "idle"
    /\ ePc' = "next"
    /\ UNCHANGED <<eDf, eHeld, eAlpha, eKind, eC, eTrain, eTest, eParams, ePred>>
    /\ UNCHANGED <<pAll, pAlpha, pKind, pDf, pTodo, pDf2, pLeakT, pFeat, pBeta, pP0, pKGps, pKCell, pOut>>

\* pred = predict_power_v2(test_df, params, ...); the function fills four
\* columns of its copy of test_df.
EvalPredict ==
    /\ ePc = "predict"
    /\ ePred' = PredictPower(eTest, eParams, eKind, MixDefault)
    /\ eTest' = CallerFrame(eTest, Listed(PredFill(eTest)))
    /\ ePc' = "summary"
    /\ UNCHANGED <<eDf, eHeld, eAlpha, eKind, eC, eTrain, eParams, eOut>>

\* The MAE and the summary of the fold.  (The run-level metrics, which feed
\* power_pred_mW to simulate_soc, are not part of the summary.)
EvalSummary ==
    /\ ePc = "summary"
    /\ eOut' = Append(eOut, [raised |-> FALSE,
                             split |-> eHeld,
                             n_train_samples |-> Len(eTrain),
                             n_test_samples |-> Len(eTest),
                             power_sample_mae_mW |-> EvalMae(ePred),
                             params |-> eParams])
    /\ ePc' = "next"
    /\ UNCHANGED <<eDf, eHeld, eAlpha, eKind, eC, eTrain, eTest, eParams, ePred>>

\* The same fold on the second table.
EvalAgain ==
    /\ ePc = "next"
    /\ eC = 1
    /\ eC' = 2
    /\ eTrain' = <<>> /\ eTest' = <<>> /\ eParams' = NoValue /\ ePred' = <<>>
    /\ ePc' = "call"
    /\ UNCHANGED <<eDf, eHeld, eAlpha, eKind, eOut>>

EvalEnd ==
    /\ ePc = "next"
    /\ eC = 2
    /\ ePc' = "done"
    /\ UNCHANGED <<eDf, eHeld, eAlpha, eKind, eC, eTrain, eTest, eParams, ePred, eOut>>

\* Input tables: the runs of EvalNames, each present or not, every sample with
\* measured power; the second table has other rows for the held-out run.
EvalNames == {OtherRun, GpsOffRun, GpsOnRun}
EvalShapes == {p \in PmShapes : \A k \in 1..Len(p.y) : ~IsNaN(p.y[k])}
EvalRunChoices ==
    UNION {{f \in [S -> EvalShapes] : \A n \in S : PmShapeFits(n, f[n])} : S \in (SUBSET EvalNames) \ {{}}}
EvalPairs ==
    {c \in UNION {{<<f, [f EXCEPT ![h] = p], h>> : h \in DOMAIN f, p \in EvalShapes} : f \in EvalRunChoices} :
        PmShapeFits(c[3], c[2][c[3]])}

EvalInit ==
    /\ \E c \in EvalPairs :
        /\ eDf = <<PmTableFrom(c[1], 1), PmTableFrom(c[2], 1)>>
        /\ eHeld = c[3]
    /\ eAlpha \in PmAlphas
    /\ eKind \in {1, 2}
    /\ eC = 1
    /\ eTrain = <<>> /\ eTest = <<>> /\ eParams = NoValue /\ ePred = <<>> /\ eOut = <<>>
    /\ ePc = "call"

EvalIdle ==
    /\ eDf = <<>>
    /\ eHeld = ""
    /\ eAlpha = 1
    /\ eKind = 1
    /\ eC = 1
    /\ eTrain = <<>> /\ eTest = <<>> /\ eParams = NoValue /\ ePred = <<>> /\ eOut = <<>>
    /\ ePc = "idle"

-----------------------------------------------------------------------------
(* model_eval_ood_v2.main in leave-one-run-out mode (--eval looro) *)

\* The rows of the table carry the columns that main and the filters of
\* fit_power_model_v2 read to decide which rows a fold uses: run_name,
\* power_total_mW and dt_s.  A row is identified by its index in the CSV, which
\* the boolean filters keep.  The parameter values of a fold are those of
\* fit_power_model_v2 on the training partition, modelled further below.

\* "run_counts >= 30"
MinRunRows == 30

\* The run names, in the order sorted() gives them.
LooroNames == <<"run_a", "run_b", "run_c", "run_d">>
NameRank(name) == CHOOSE j \in 1..Len(LooroNames) : LooroNames[j] = name

\* df[df["power_total_mW"].notna()]: the indices of the rows with measured power
LooroMeasured(df) == {k \in 1..Len(df) : ~IsNaN(df[k].power_total_mW)}
\* run_counts = df.groupby("run_name").size(), on the rows in idx
LooroRunCount(df, idx, name) == Cardinality({k \in idx : df[k].run_name = name})
\* keep_runs = set(run_counts[run_counts >= 30].index)
LooroKeepRuns(df, idx) ==
    {name \in {df[k].run_name : k \in idx} : LooroRunCount(df, idx, name) >= MinRunRows}
\* df[df["run_name"].isin(keep_runs)]
LooroKept(df) ==
    LET idx == LooroMeasured(df)
    IN  {k \in idx : df[k].run_name \in LooroKeepRuns(df, idx)}

\* sorted(df["run_name"].unique())
RECURSIVE SortNames(_)
SortNames(names) ==
    IF names = {} THEN <<>>
    ELSE LET first == CHOOSE x \in names : \A y \in names : NameRank(x) <= NameRank(y)
         IN  <<first>> \o SortNames(names \ {first})

\* train_mask = df["run_name"].ne(run_name); train_df = all_df.loc[train_mask],
\* test_df = all_df.loc[~train_mask]
LooroTrainMaskAll(df, k, name) == TRUE
LooroTrainMask(df, k, name) == df[k].run_name # name
LooroTrain(df, idx, name) == {k \in idx : LooroTrainMask(df, k, name)}
LooroTest(df, idx, name) == {k \in idx : ~(df[k].run_name # name)}

\* fit_power_model_v2 keeps the rows with dt_s > 0 (after fillna(0)) and measured
\* power; with none left, pd.concat of the empty list of runs raises ValueError.
FitUsableRows(df, idx) ==
    {k \in idx : FillNa(<<df[k].dt_s>>, 0)[1] > 0 /\ ~IsNaN(df[k].power_total_mW)}

\* pd.read_csv; the two filters; the list of runs to hold out.
LooroFilter ==
    /\ lPc = "read"
    /\ lKept' = LooroKept(lDf)
    /\ lTodo' = SortNames({lDf[k].run_name : k \in LooroKept(lDf)})
    /\ lPc' = "loop"
    /\ UNCHANGED <<lDf, lFolds>>

\* One iteration of "for run_name in sorted(...)": eval_split returns a summary.
LooroFold ==
    /\ lPc = "loop"
    /\ lTodo # <<>>
    /\ FitUsableRows(lDf, LooroTrain(lDf, lKept, Head(lTodo))) # {}
    /\ lFolds' = Append(lFolds, [split |-> Head(lTodo),
                                 train |-> LooroTrain(lDf, lKept, Head(lTodo)),
                                 test |-> LooroTest(lDf, lKept, Head(lTodo))])
    /\ lTodo' = Tail(lTodo)
    /\ UNCHANGED <<lDf, lKept, lPc>>

\* ... or the fit inside eval_split raises and main ends with the exception.
LooroFoldRaises ==
    /\ lPc = "loop"
    /\ lTodo # <<>>
    /\ FitUsableRows(lDf, LooroTrain(lDf, lKept, Head(lTodo))) = {}
    /\ lPc' = "raised"
    /\ UNCHANGED <<lDf, lKept, lTodo, lFolds>>

\* After the loop: the summaries are written; pd.concat(all_run_metrics) raises
\* when there is no fold.
LooroWrite ==
    /\ lPc = "loop"
    /\ lTodo = <<>>
    /\ lPc' = (IF lFolds = <<>> THEN "raised" ELSE "done")
    /\ UNCHANGED <<lDf, lKept, lTodo, lFolds>>

\* Input tables: up to MaxRuns runs, listed run after run in either name order.
MaxRuns == 3
\* n rows, the first `missing` of them without measured power, every dt_s = dt
RunShapes ==
    {[n |-> MinRunRows, missing |-> 0, dt |-> 2],
     [n |-> MinRunRows, missing |-> 1, dt |-> 2],
     [n |-> MinRunRows + 1, missing |-> 1, dt |-> 2],
     [n |-> MinRunRows, missing |-> 0, dt |-> NaN],
     [n |-> 1, missing |-> 0, dt |-> 2]}
RunRows(name, shape) ==
    [k \in 1..shape.n |->
        [run_name |-> name,
         power_total_mW |-> IF k <= shape.missing THEN NaN ELSE 1000,
         dt_s |-> shape.dt]]
RECURSIVE ConcatRuns(_, _, _)
ConcatRuns(shapes, order, j) ==
    IF j > Len(shapes) THEN <<>>
    ELSE RunRows(LooroNames[order[j]], shapes[order[j]]) \o ConcatRuns(shapes, order, j + 1)
LooroTables ==
    UNION {
        {ConcatRuns(shapes, order, 1) :
            <<shapes, order>> \in [1..n -> RunShapes]
                \X {[j \in 1..n |-> j], [j \in 1..n |-> n + 1 - j]}}
        : n \in 1..MaxRuns }

LooroInit ==
    /\ lDf \in LooroTables
    /\ lKept = {}
    /\ lTodo = <<>>
    /\ lFolds = <<>>
    /\ lPc = "read"

LooroIdle ==
    /\ lDf = <<>>
    /\ lKept = {}
    /\ lTodo = <<>>
    /\ lFolds = <<>>
    /\ lPc = "idle"

-----------------------------------------------------------------------------
(* fit_i2r_internal_resistance.main: the leave-one-scenario-out I^2R fit *)

\* A row is one run of the merged table.  Powers are held in mW (the code fits
\* in W: every power, and so every coefficient, is 1000 times the code's, which
\* leaves signs, the scale s and the NaN alone), currents in uA, temperatures in
\* degrees C; the currents of the tables are whole amperes or below the mask's
\* threshold, the battery levels 0 or 100 percent.
MicroPerAmp == 1000000
I2rTref == 40
I2rMinMicroAmp == 100

NanSub(a, b) == IF IsNaN(a) \/ IsNaN(b) THEN NaN ELSE a - b
NanMul(a, b) == IF IsNaN(a) \/ IsNaN(b) THEN NaN ELSE a * b
\* np.maximum(0.0, x): a NaN stays a NaN
NpMax0(x) == IF IsNaN(x) THEN NaN ELSE IF x < 0 THEN 0 ELSE x

\* resid = p_meas - p_pred
I2rResid(r) == NanSub(r.p_meas_mean_mW, r.p_pred_mean_mW)
\* i_A = |i_uA| / 1e6; i2 = i_A * i_A
I2rI2(r) ==
    IF IsNaN(r.perfetto_current_mean_uA) THEN NaN
    ELSE (Abs(r.perfetto_current_mean_uA) \div MicroPerAmp) * (Abs(r.perfetto_current_mean_uA) \div MicroPerAmp)
\* 1 - soc with soc = battery_level0_pct / 100
I2rOneMinusSoc(r) ==
    IF IsNaN(r.battery_level0_pct) THEN NaN ELSE (100 - r.battery_level0_pct) \div 100
\* m = isfinite(resid) & isfinite(i2) & (i2 > 1e-8)
I2rMask(r) ==
    /\ ~IsNaN(I2rResid(r))
    /\ ~IsNaN(r.perfetto_current_mean_uA)
    /\ Abs(r.perfetto_current_mean_uA) > I2rMinMicroAmp
\* yW = np.maximum(0.0, resid / 1000.0)
I2rY(r) == NpMax0(I2rResid(r))

\* design(mask): one row of X; the columns depend on the model
I2rColumns(model) == IF model = "R0" THEN 1 ELSE IF model = "R0_Rsoc" THEN 2 ELSE 3
I2rDesignRow(r, model) ==
    <<I2rI2(r)>>
        \o (IF model \in {"R0_Rsoc", "R0_Rsoc_Rtpos"}
            THEN <<NanMul(I2rI2(r), I2rOneMinusSoc(r))>> ELSE <<>>)
        \o (IF model = "R0_Rsoc_Rtpos"
            THEN <<NanMul(I2rI2(r), NpMax0(NanSub(r.thermal_cpu0_C, I2rTref)))>> ELSE <<>>)

\* The rows of df picked by a mask, in table order.
RECURSIVE I2rPick(_, _, _, _)
I2rPick(df, scen, same, k) ==
    IF k > Len(df) THEN <<>>
    ELSE (IF I2rMask(df[k]) /\ ((df[k].scenario = scen) = same) THEN <<df[k]>> ELSE <<>>)
             \o I2rPick(df, scen, same, k + 1)
I2rTrainRows(df, scen) == I2rPick(df, scen, FALSE, 1)

\* The determinant of a square matrix, by expansion along the first row.
MinorN(m, j) ==
    [r \in 1..(Len(m) - 1) |-> [c \in 1..(Len(m) - 1) |-> m[r + 1][IF c < j THEN c ELSE c + 1]]]
RECURSIVE DetN(_)
RECURSIVE DetSum(_, _)
DetSum(m, j) ==
    IF j = 0 THEN 0
    ELSE (IF j % 2 = 1 THEN 1 ELSE 0 - 1) * m[1][j] * DetN(MinorN(m, j)) + DetSum(m, j - 1)
DetN(m) == IF Len(m) = 1 THEN m[1][1] ELSE DetSum(m, Len(m))

\* _ols_beta(X, y, ridge) = solve(X'X + ridge*I, X'y), by Cramer's rule: the
\* numerators and the common denominator det > 0.  A NaN anywhere in X makes
\* every entry of the LAPACK solution a NaN.
AllNaN == [nan |-> TRUE, num |-> <<>>, den |-> 1]
HasNaN(X) == \E i \in 1..Len(X) : \E j \in 1..Len(X[i]) : IsNaN(X[i][j])
OlsBeta(X, y, ridge, p) ==
    IF HasNaN(X) \/ (\E i \in 1..Len(y) : IsNaN(y[i])) THEN AllNaN
    ELSE LET A == Listed([i \in 1..p |-> Listed([j \in 1..p |->
                     SumXX(X, i, j, Len(X)) + (IF i = j THEN ridge ELSE 0)])])
             b == Listed([i \in 1..p |-> SumXy(X, y, i, Len(X))])
         IN  [nan |-> FALSE,
              num |-> [j \in 1..p |->
                          DetN([r \in 1..p |-> [c \in 1..p |-> IF c = j THEN b[r] ELSE A[r][c]]])],
              den |-> DetN(A)]
\* beta = np.maximum(beta, 0.0)
I2rClamp(beta) ==
    IF beta.nan THEN beta ELSE [beta EXCEPT !.num = [j \in DOMAIN beta.num |-> NpMax0(beta.num[j])]]

\* X @ beta for one row, times beta.den; NaN when the row or beta has one
I2rDot(x, beta) ==
    IF beta.nan \/ (\E j \in 1..Len(x) : IsNaN(x[j])) THEN NaN
    ELSE Dot(x, beta.num)

RatMul(a, b) ==
    LET g1 == Gcd(Abs(a[1]), b[2])
        g2 == Gcd(Abs(b[1]), a[2])
    IN  <<(a[1] \div g1) * (b[1] \div g2), (a[2] \div g2) * (b[2] \div g1)>>

RECURSIVE GcdAll(_, _)
GcdAll(u, k) == IF k = 0 THEN 0 ELSE Gcd(u[k], GcdAll(u, k - 1))

\* s = 1.0; if fit_scale: den = yhat.yhat; if den > 0: s = max(0.0, yhat.resid / den)
\* with yhat = Xtr @ beta and resid the training residuals (not clipped).  yhat
\* is u / beta.den; u is held divided by the common factor g of its entries.
I2rScale(train, model, beta, fitScale) ==
    LET u == Listed([k \in 1..Len(train) |-> I2rDot(I2rDesignRow(train[k], model), beta)])
        r == Listed([k \in 1..Len(train) |-> I2rResid(train[k])])
    IN  IF (~fitScale) \/ beta.nan \/ (\E k \in 1..Len(u) : IsNaN(u[k])) THEN Rat(1, 1)
        ELSE IF Dot(u, u) = 0 THEN Rat(1, 1)
        ELSE LET g == GcdAll(u, Len(u))
                 v == Listed([k \in 1..Len(u) |-> u[k] \div g])
             IN  IF Dot(v, r) <= 0 THEN Rat(0, 1)
                 ELSE RatMul(RatNorm(Dot(v, r), Dot(v, v)), RatNorm(beta.den, g))

\* p_loss_hat_W[test_mask] = np.maximum(0.0, (Xt @ beta) * s), NaN held as RatNone
I2rLoss(r, model, beta, s) ==
    LET u == I2rDot(I2rDesignRow(r, model), beta)
    IN  IF IsNaN(u) THEN RatNone
        ELSE IF u <= 0 THEN Rat(0, 1)
        ELSE RatMul(RatNorm(u, beta.den), s)

\* p_pred_corr = p_pred + 1000 * p_loss_hat_W; resid_corr = p_meas - p_pred_corr
I2rResidCorr(r, loss) ==
    IF IsNaN(I2rResid(r)) \/ loss = RatNone THEN RatNone
    ELSE RatSub(Rat(I2rResid(r), 1), loss)
\* _metrics(resid)["n"]: how many residuals are finite
I2rCount(col) == Cardinality({k \in 1..Len(col) : col[k] # RatNone})

\* df[qc_keep == 1] when --use-only-qc-keep is given
I2rQcFilter(df, useQc) == IF useQc THEN SelectSeq(df, LAMBDA r : r.qc_keep = 1) ELSE df
\* sorted(df.loc[m, "scenario"].unique()); a scenario is held as its rank in
\* the sorted order of the scenario names
RECURSIVE SortedSeq(_)
SortedSeq(S) ==
    IF S = {} THEN <<>>
    ELSE LET lo == CHOOSE x \in S : \A y \in S : x <= y IN <<lo>> \o SortedSeq(S \ {lo})
I2rScenarios(df) == SortedSeq({df[k].scenario : k \in {j \in 1..Len(df) : I2rMask(df[j])}})

I2rBegin ==
    /\ irPc = "start"
    /\ irDf' = I2rQcFilter(irDf, irUseQc)
    /\ irTodo' = I2rScenarios(irDf')
    /\ irLoss' = [k \in 1..Len(irDf') |-> RatNone]
    /\ irBeta' = <<>>
    /\ irPc' = "fold"
    /\ UNCHANGED <<irModel, irRidge, irScale, irUseQc, irOut>>

I2rIsTest(k) == I2rMask(irDf[k]) /\ irDf[k].scenario = Head(irTodo)

\* if len(ytr) < Xtr.shape[1] + 1: the held-out loss is zero and no beta is recorded
I2rFoldSkip ==
    /\ irPc = "fold"
    /\ irTodo # <<>>
    /\ Len(I2rTrainRows(irDf, Head(irTodo))) < I2rColumns(irModel) + 1
    /\ irLoss' = [k \in 1..Len(irDf) |-> IF I2rIsTest(k) THEN Rat(0, 1) ELSE irLoss[k]]
    /\ irTodo' = Tail(irTodo)
    /\ UNCHANGED <<irDf, irModel, irRidge, irScale, irUseQc, irBeta, irOut, irPc>>

I2rFold ==
    /\ irPc = "fold"
    /\ irTodo # <<>>
    /\ LET train == I2rTrainRows(irDf, Head(irTodo))
           p == I2rColumns(irModel)
       IN  /\ Len(train) >= p + 1
           /\ LET Xtr == Listed([k \in 1..Len(train) |-> I2rDesignRow(train[k], irModel)])
                  ytr == Listed([k \in 1..Len(train) |-> I2rY(train[k])])
                  beta == I2rClamp(OlsBeta(Xtr, ytr, irRidge, p))
                  s == I2rScale(train, irModel, beta, irScale)
              IN  /\ irLoss' = [k \in 1..Len(irDf) |->
                                   IF I2rIsTest(k) THEN I2rLoss(irDf[k], irModel, beta, s)
                                   ELSE irLoss[k]]
                  /\ irBeta' = Append(irBeta,
                                   [scenario |-> Head(irTodo), scale_s |-> s, beta |-> beta])
    /\ irTodo' = Tail(irTodo)
    /\ UNCHANGED <<irDf, irModel, irRidge, irScale, irUseQc, irOut, irPc>>

\* The corrected residuals and their summary (only n and the residuals
\* themselves are kept: mae, rmse, bias and the correlations are derived
\* from them).
I2rFinish ==
    /\ irPc = "fold"
    /\ irTodo = <<>>
    /\ LET rc == [k \in 1..Len(irDf) |-> I2rResidCorr(irDf[k], irLoss[k])]
       IN  irOut' = [resid_corr |-> rc,
                     n_base |-> Cardinality({k \in 1..Len(irDf) : ~IsNaN(I2rResid(irDf[k]))}),
                     n_corr |-> I2rCount(rc),
                     folds |-> irBeta]
    /\ irPc' = "done"
    /\ UNCHANGED <<irDf, irModel, irRidge, irScale, irUseQc, irTodo, irLoss, irBeta>>

\* The merged tables the fit is run on: rows 1..n of a fixed list of runs, at
\* most one of them with a defect, under one of two assignments of runs to
\* scenarios.
MaxI2rRows == 5
I2rModels == {"R0", "R0_Rsoc", "R0_Rsoc_Rtpos"}
I2rRidges == {1, 2}
I2rRunList ==
    <<[p_meas_mean_mW |-> 5, p_pred_mean_mW |-> 3, perfetto_current_mean_uA |-> 0 - MicroPerAmp,
       battery_level0_pct |-> 0, thermal_cpu0_C |-> 42],
      [p_meas_mean_mW |-> 4, p_pred_mean_mW |-> 5, perfetto_current_mean_uA |-> MicroPerAmp,
       battery_level0_pct |-> 100, thermal_cpu0_C |-> 38],
      [p_meas_mean_mW |-> 6, p_pred_mean_mW |-> 3, perfetto_current_mean_uA |-> MicroPerAmp,
       battery_level0_pct |-> 0, thermal_cpu0_C |-> 40],
      [p_meas_mean_mW |-> 7, p_pred_mean_mW |-> 3, perfetto_current_mean_uA |-> MicroPerAmp,
       battery_level0_pct |-> 100, thermal_cpu0_C |-> 41],
      [p_meas_mean_mW |-> 4, p_pred_mean_mW |-> 3, perfetto_current_mean_uA |-> MicroPerAmp,
       battery_level0_pct |-> 0, thermal_cpu0_C |-> 41],
      [p_meas_mean_mW |-> 6, p_pred_mean_mW |-> 4, perfetto_current_mean_uA |-> MicroPerAmp,
       battery_level0_pct |-> 100, thermal_cpu0_C |-> 42]>>
I2rDefects ==
    {"none", "no_battery", "no_temperature", "no_power", "no_current", "idle_current", "qc_drop",
     "over_predicted"}
I2rDefect(r, d) ==
    IF d = "no_battery" THEN [r EXCEPT !.battery_level0_pct = NaN]
    ELSE IF d = "no_temperature" THEN [r EXCEPT !.thermal_cpu0_C = NaN]
    ELSE IF d = "no_power" THEN [r EXCEPT !.p_meas_mean_mW = NaN]
    ELSE IF d = "no_current" THEN [r EXCEPT !.perfetto_current_mean_uA = NaN]
    ELSE IF d = "idle_current" THEN [r EXCEPT !.perfetto_current_mean_uA = 50]
    ELSE IF d = "qc_drop" THEN [r EXCEPT !.qc_keep = 0]
    ELSE IF d = "over_predicted" THEN [r EXCEPT !.p_pred_mean_mW = r.p_meas_mean_mW + 2]
    ELSE r
\* "tail": the last two runs are scenarios 2 and 3, the others scenario 1;
\* "round": the scenarios take turns.
I2rScenarioOf(k, n, how) ==
    IF how = "round" THEN ((k - 1) % 3) + 1
    ELSE IF k = n THEN 3 ELSE IF k = n - 1 THEN 2 ELSE 1
I2rRun(k, n, how) ==
    LET b == I2rRunList[((k - 1) % Len(I2rRunList)) + 1]
    IN  [scenario |-> I2rScenarioOf(k, n, how), qc_keep |-> 1,
         p_meas_mean_mW |-> b.p_meas_mean_mW, p_pred_mean_mW |-> b.p_pred_mean_mW,
         perfetto_current_mean_uA |-> b.perfetto_current_mean_uA,
         battery_level0_pct |-> b.battery_level0_pct, thermal_cpu0_C |-> b.thermal_cpu0_C]
I2rTable(n, how, at, d) ==
    Listed([k \in 1..n |-> IF k = at THEN I2rDefect(I2rRun(k, n, how), d) ELSE I2rRun(k, n, how)])
I2rTables ==
    {I2rTable(n, how, at, d) : n \in 3..MaxI2rRows, how \in {"tail", "round"},
                               at \in 1..MaxI2rRows, d \in I2rDefects}

I2rInit ==
    /\ irDf \in I2rTables
    /\ irModel \in I2rModels
    /\ irRidge \in I2rRidges
    /\ irScale \in BOOLEAN
    /\ irUseQc \in BOOLEAN
    /\ irTodo = <<>> /\ irLoss = <<>> /\ irBeta = <<>> /\ irOut = NoValue
    /\ irPc = "start"
I2rIdle ==
    /\ irDf = <<>>
    /\ irModel = "R0"
    /\ irRidge = 1
    /\ irScale = FALSE
    /\ irUseQc = FALSE
    /\ irTodo = <<>> /\ irLoss = <<>> /\ irBeta = <<>> /\ irOut = NoValue
    /\ irPc = "idle"

-----------------------------------------------------------------------------
(* A fit called a second time on the table of the first call *)

\* The caller keeps what the first call returned and calls again with the same
\* arguments; the locals of the first call are whatever it left them.
RefitThermal ==
    /\ rCall = 1
    /\ fPc = "done"
    /\ rFirst' = fTh
    /\ rCall' = 2
    /\ fPc' = "call"
    /\ UNCHANGED <<fDf, fKind, fZ1, fX1, fX2, fZ2, fX3, fX4, fI, fPath, fTh>>

RefitPower ==
    /\ rCall = 1
    /\ pPc \in {"done", "raised"}
    /\ rFirst' = (IF pPc = "done" THEN pOut ELSE PmRaised)
    /\ rCall' = 2
    /\ pPc' = "call"
    /\ UNCHANGED <<pAll, pAlpha, pKind, pDf, pTodo, pDf2, pLeakT, pFeat, pBeta, pP0, pKGps, pKCell, pOut>>

RefitInit == rFirst = NoValue /\ rCall = 1
RefitIdle == rFirst = NoValue /\ rCall = 0

-----------------------------------------------------------------------------
(* A fit replayed from its parameter file *)

\* main: params.c_eff_mAh = args.c_eff_mAh, then json.dumps(asdict(params)): one
\* entry per field.  A float is written by repr, the shortest decimal that
\* reads back as the same float, so the entry read back is the value written.
RtDumped(q, ceff) == [name \in DOMAIN q |-> IF name = "c_eff_mAh" THEN ceff ELSE q[name]]
\* ModelParamsV2(**json.loads(text))
RtLoaded(obj) == [name \in DOMAIN obj |-> obj[name]]

RtDump ==
    /\ rtPc = "fit"
    /\ pPc = "done"
    /\ rtArtifact' = RtDumped(pOut.params, CEffDefault)
    /\ rtPc' = "dumped"
    /\ UNCHANGED rtPred

\* predict_power_v2 on the table of the fit, with the parameters read back
RtReplay ==
    /\ rtPc = "dumped"
    /\ rtPred' = Listed(PredictPower(pAll, RtLoaded(rtArtifact), pKind, MixDefault))
    /\ rtPc' = "done"
    /\ UNCHANGED rtArtifact

RtInit == rtArtifact = NoValue /\ rtPred = <<>> /\ rtPc = "fit"
RtIdle == rtArtifact = NoValue /\ rtPred = <<>> /\ rtPc = "idle"

-----------------------------------------------------------------------------
(* scenario_covariate_adjustment: adjusted_means *)

\* The scenario names, in sorted order, and sorted(...) of a set of them.
AdjScenarios == <<"S1", "S2", "S3-GPS">>
AdjSorted(S) == SelectSeq(AdjScenarios, LAMBDA s : s \in S)

\* pd.get_dummies(scen, prefix="scen", drop_first=drop_first): one column per
\* scenario of the table, in sorted order, without the first when drop_first.
AdjDummies(df, drop) ==
    LET cats == AdjSorted({df[k].scenario : k \in 1..Len(df)})
    IN  IF drop /\ cats # <<>> THEN Tail(cats) ELSE cats
\* colnames: "intercept", the scenario dummies "scen_<scenario>" (held as a
\* pair), the covariates
AdjColnames(df, drop, cov) ==
    <<<<"intercept">>>> \o [j \in 1..Len(AdjDummies(df, drop)) |-> <<"scen", AdjDummies(df, drop)[j]>>]
                       \o [j \in 1..Len(cov) |-> <<cov[j]>>]
\* One row of X
AdjDesignRow(r, cols) ==
    [j \in 1..Len(cols) |->
        IF cols[j] = <<"intercept">> THEN 1
        ELSE IF cols[j] = <<"x">> THEN r.x
        ELSE IF cols[j][2] = r.scenario THEN 1 ELSE 0]
\* m: the rows with a finite y and a finite value in every column of X
AdjComplete(df, cols) ==
    SelectSeq(Listed([k \in 1..Len(df) |-> k]),
              LAMBDA k : ~IsNaN(df[k].y) /\ \A j \in 1..Len(cols) : ~IsNaN(AdjDesignRow(df[k], cols)[j]))
\* beta = fit_huber_irls(Xf, yf, ...): the coefficient vector is kept as the
\* solve it is the result of, that is by the rows, the design rows and the
\* targets it was computed from.
AdjHuberFit(df, cols, m) ==
    [rows |-> m,
     X |-> [j \in 1..Len(m) |-> AdjDesignRow(df[m[j]], cols)],
     y |-> [j \in 1..Len(m) |-> df[m[j]].y]]
\* the reference value of the covariate: the median of its column
AdjRef(df) == Median([k \in 1..Len(df) |-> df[k].x])
\* x of one scenario: intercept, its dummy unless it is the baseline, the
\* covariate at its reference value when that is finite
AdjPoint(df, cols, drop, baseline, scen) ==
    [j \in 1..Len(cols) |->
        IF cols[j] = <<"intercept">> THEN 1
        ELSE IF cols[j] = <<"x">> THEN (IF IsNaN(AdjRef(df)) THEN 0 ELSE AdjRef(df))
        ELSE IF drop /\ scen = baseline THEN 0
        ELSE IF cols[j][2] = scen THEN 1 ELSE 0]

\* "if len(dff) < (Xf.shape[1] + 1): raise RuntimeError"
AdjRaises ==
    /\ anPc = "call"
    /\ Len(AdjComplete(anDf, AdjColnames(anDf, anDrop, anCov))) < Len(AdjColnames(anDf, anDrop, anCov)) + 1
    /\ anCols' = AdjColnames(anDf, anDrop, anCov)
    /\ anPc' = "raised"
    /\ UNCHANGED <<anDf, anDrop, anCov, anFit, anTodo, anAdj>>

\* The design matrix, the complete rows, the one fit on all of them, scen_values.
AdjFit ==
    /\ anPc = "call"
    /\ LET cols == AdjColnames(anDf, anDrop, anCov)
           m == AdjComplete(anDf, cols)
       IN  /\ Len(m) >= Len(cols) + 1
           /\ anCols' = cols
           /\ anFit' = AdjHuberFit(anDf, cols, m)
           /\ anTodo' = AdjSorted({anDf[m[j]].scenario : j \in 1..Len(m)})
    /\ anPc' = "means"
    /\ UNCHANGED <<anDf, anDrop, anCov, anAdj>>

\* One iteration of "for scen in scen_values": adjusted_mean = x @ beta
AdjMean ==
    /\ anPc = "means"
    /\ anTodo # <<>>
    /\ LET scen_values == AdjSorted({anDf[anFit.rows[j]].scenario : j \in 1..Len(anFit.rows)})
       IN  anAdj' = Append(anAdj, [scenario |-> Head(anTodo),
                                   x |-> AdjPoint(anDf, anCols, anDrop, scen_values[1], Head(anTodo)),
                                   beta |-> anFit])
    /\ anTodo' = Tail(anTodo)
    /\ UNCHANGED <<anDf, anDrop, anCov, anCols, anFit, anPc>>

\* return adj, coef, meta
AdjReturn ==
    /\ anPc = "means"
    /\ anTodo = <<>>
    /\ anPc' = "done"
    /\ UNCHANGED <<anDf, anDrop, anCov, anCols, anFit, anTodo, anAdj>>

\* Input tables: per scenario up to MaxAdjRuns runs with a mean power and
\* possibly one run without; the covariate is recorded for every run, and so
\* is the base model's mean prediction (a column adjusted_means never reads).
MaxAdjRuns == 2
AdjRuns(scen, n, missing) ==
    [k \in 1..(n + missing) |->
        [scenario |-> scen, y |-> IF k > n THEN NaN ELSE 2 * k + Len(scen), x |-> 30 + k,
         p_pred_mean_mW |-> 7]]
RECURSIVE AdjTableFrom(_, _, _)
AdjTableFrom(n, missing, j) ==
    IF j > Len(AdjScenarios) THEN <<>>
    ELSE AdjRuns(AdjScenarios[j], n[j], missing[j]) \o AdjTableFrom(n, missing, j + 1)
AdjTables ==
    {AdjTableFrom(n, missing, 1) :
        n \in [1..Len(AdjScenarios) -> 0..MaxAdjRuns],
        missing \in [1..Len(AdjScenarios) -> {0, 1}]}

AncovaInit ==
    /\ anDf \in AdjTables
    /\ anDrop \in BOOLEAN
    /\ anCov \in {<<>>, <<"x">>}
    /\ anCols = <<>> /\ anFit = NoValue /\ anTodo = <<>> /\ anAdj = <<>>
    /\ anPc = "call"
AncovaIdle ==
    /\ anDf = <<>>
    /\ anDrop = FALSE
    /\ anCov = <<>>
    /\ anCols = <<>> /\ anFit = NoValue /\ anTodo = <<>> /\ anAdj = <<>>
    /\ anPc = "idle"

-----------------------------------------------------------------------------
(* fit_huber_irls: one call, before its first step and when it is not run *)

HuberIdle ==
    /\ hY = <<>> /\ hC = <<1, 1>> /\ hIters = 0
    /\ hBeta = 0 /\ hPrev = 0 /\ hS = <<1, 1>> /\ hW = <<>> /\ hK = 0
    /\ hPc = "idle"

-----------------------------------------------------------------------------
(* ensure_device_ready and the sampling loop of adb_sample_power, when not run *)

NoSnapshot == <<>>
ReadyIdle == gTimeout = 0 /\ gClock = 0 /\ gLog = <<>> /\ gPc = "idle"
SamplerIdle ==
    /\ sDuration = 0 /\ sClock = 0 /\ sSeq = 0 /\ sIter = 0 /\ sRows = <<>>
    /\ sPrev = NoSnapshot /\ sSnap = NoSnapshot /\ sLast = NoSnapshot /\ sDeltas = <<>> /\ sCalls = 0
    /\ sPc = "idle"

-----------------------------------------------------------------------------
(* The simulators: one call of simulate_soc or of a temperature simulator. *)

simRestVars == <<fitVars, looroVars, pmVars, evalVars, i2rVars, refitVars, rtVars, ancovaVars, huberVars, readyVars, samplerVars>>
SimRest == FitIdle /\ LooroIdle /\ PmIdle /\ EvalIdle /\ I2rIdle /\ RefitIdle /\ RtIdle /\ AncovaIdle /\ HuberIdle /\ ReadyIdle /\ SamplerIdle

SimInit == ((SocInit /\ TempIdle) \/ (SocIdle /\ TempInit)) /\ SimRest

SimNext ==
    \/ SocBegin /\ UNCHANGED tempVars /\ UNCHANGED simRestVars
    \/ SocStepHold /\ UNCHANGED tempVars /\ UNCHANGED simRestVars
    \/ SocStepEuler /\ UNCHANGED tempVars /\ UNCHANGED simRestVars
    \/ SocReturn /\ UNCHANGED tempVars /\ UNCHANGED simRestVars
    \/ TempBegin /\ UNCHANGED socVars /\ UNCHANGED simRestVars
    \/ TempStepHold /\ UNCHANGED socVars /\ UNCHANGED simRestVars
    \/ Temp1StepEuler /\ UNCHANGED socVars /\ UNCHANGED simRestVars
    \/ Temp2StepEuler /\ UNCHANGED socVars /\ UNCHANGED simRestVars
    \/ TempReturn /\ UNCHANGED socVars /\ UNCHANGED simRestVars

SpecSim == SimInit /\ [][SimNext]_vars

-----------------------------------------------------------------------------
(* The thermal fitter: one call of fit_thermal_1state or fit_thermal_2state. *)

thermalRestVars == <<socVars, tempVars, looroVars, pmVars, evalVars, i2rVars, refitVars, rtVars, ancovaVars, huberVars, readyVars, samplerVars>>
ThermalRest == SocIdle /\ TempIdle /\ LooroIdle /\ PmIdle /\ EvalIdle /\ I2rIdle /\ RefitIdle /\ RtIdle /\ AncovaIdle /\ HuberIdle /\ ReadyIdle /\ SamplerIdle

ThermalInit == FitInit /\ ThermalRest

ThermalNext ==
    \/ FitBegin /\ UNCHANGED thermalRestVars
    \/ FitLoopSkip /\ UNCHANGED thermalRestVars
    \/ FitLoopTake /\ UNCHANGED thermalRestVars
    \/ FitReturnFew /\ UNCHANGED thermalRestVars
    \/ FitReturnRegression /\ UNCHANGED thermalRestVars

SpecThermal == ThermalInit /\ [][ThermalNext]_vars

-----------------------------------------------------------------------------
(* The evaluation harness: one run of main with --eval looro. *)

looroRestVars == <<socVars, tempVars, fitVars, pmVars, evalVars, i2rVars, refitVars, rtVars, ancovaVars, huberVars, readyVars, samplerVars>>
LooroRest == SocIdle /\ TempIdle /\ FitIdle /\ PmIdle /\ EvalIdle /\ I2rIdle /\ RefitIdle /\ RtIdle /\ AncovaIdle /\ HuberIdle /\ ReadyIdle /\ SamplerIdle

LooroRunInit == LooroInit /\ LooroRest

LooroNext ==
    \/ LooroFilter /\ UNCHANGED looroRestVars
    \/ LooroFold /\ UNCHANGED looroRestVars
    \/ LooroFoldRaises /\ UNCHANGED looroRestVars
    \/ LooroWrite /\ UNCHANGED looroRestVars

SpecLooro == LooroRunInit /\ [][LooroNext]_vars

-----------------------------------------------------------------------------
(* The power model fitter: one call of fit_power_model_v2. *)

powerRestVars == <<socVars, tempVars, fitVars, looroVars, evalVars, i2rVars, refitVars, rtVars, ancovaVars, huberVars, readyVars, samplerVars>>
PowerRest == SocIdle /\ TempIdle /\ FitIdle /\ LooroIdle /\ EvalIdle /\ I2rIdle /\ RefitIdle /\ RtIdle /\ AncovaIdle /\ HuberIdle /\ ReadyIdle /\ SamplerIdle

PowerInit == PmInit /\ PowerRest

PowerNext ==
    \/ PmPrepare /\ UNCHANGED powerRestVars
    \/ PmThermalRun /\ UNCHANGED powerRestVars
    \/ PmConcatRaises /\ UNCHANGED powerRestVars
    \/ PmLeak /\ UNCHANGED powerRestVars
    \/ PmBase /\ UNCHANGED powerRestVars
    \/ PmGps /\ UNCHANGED powerRestVars
    \/ PmCell /\ UNCHANGED powerRestVars
    \/ PmReturn /\ UNCHANGED powerRestVars

SpecPower == PowerInit /\ [][PowerNext]_vars

-----------------------------------------------------------------------------
(* One evaluation fold, eval_split, run on two tables. *)

evalRestVars == <<socVars, tempVars, fitVars, looroVars, i2rVars, refitVars, rtVars, ancovaVars, huberVars, readyVars, samplerVars>>
EvalRest == SocIdle /\ TempIdle /\ FitIdle /\ LooroIdle /\ I2rIdle /\ RefitIdle /\ RtIdle /\ AncovaIdle /\ HuberIdle /\ ReadyIdle /\ SamplerIdle

EvalRunInit == EvalInit /\ PmIdle /\ EvalRest

EvalNext ==
    \/ EvalPartition /\ UNCHANGED <<pmVars, evalRestVars>>
    \/ EvalCallFit /\ UNCHANGED evalRestVars
    \/ PmPrepare /\ UNCHANGED powerRestVars
    \/ PmThermalRun /\ UNCHANGED powerRestVars
    \/ PmConcatRaises /\ UNCHANGED powerRestVars
    \/ PmLeak /\ UNCHANGED powerRestVars
    \/ PmBase /\ UNCHANGED powerRestVars
    \/ PmGps /\ UNCHANGED powerRestVars
    \/ PmCell /\ UNCHANGED powerRestVars
    \/ PmReturn /\ UNCHANGED powerRestVars
    \/ EvalFitReturns /\ UNCHANGED evalRestVars
    \/ EvalFitRaises /\ UNCHANGED evalRestVars
    \/ EvalPredict /\ UNCHANGED <<pmVars, evalRestVars>>
    \/ EvalSummary /\ UNCHANGED <<pmVars, evalRestVars>>
    \/ EvalAgain /\ UNCHANGED <<pmVars, evalRestVars>>
    \/ EvalEnd /\ UNCHANGED <<pmVars, evalRestVars>>

SpecEval == EvalRunInit /\ [][EvalNext]_vars

-----------------------------------------------------------------------------
(* The I^2R fit: one run of fit_i2r_internal_resistance.main. *)

i2rRestVars == <<socVars, tempVars, fitVars, looroVars, pmVars, evalVars, refitVars, rtVars, ancovaVars, huberVars, readyVars, samplerVars>>
I2rRest == SocIdle /\ TempIdle /\ FitIdle /\ LooroIdle /\ PmIdle /\ EvalIdle /\ RefitIdle /\ RtIdle /\ AncovaIdle /\ HuberIdle /\ ReadyIdle /\ SamplerIdle

I2rRunInit == I2rInit /\ I2rRest

I2rNext ==
    \/ I2rBegin /\ UNCHANGED i2rRestVars
    \/ I2rFoldSkip /\ UNCHANGED i2rRestVars
    \/ I2rFold /\ UNCHANGED i2rRestVars
    \/ I2rFinish /\ UNCHANGED i2rRestVars

SpecI2r == I2rRunInit /\ [][I2rNext]_vars

-----------------------------------------------------------------------------
(* Two calls of a thermal fitter, or of fit_power_model_v2, on one table. *)

refitRestVars == <<socVars, tempVars, looroVars, evalVars, i2rVars, rtVars, ancovaVars, huberVars, readyVars, samplerVars>>
RefitRest == SocIdle /\ TempIdle /\ LooroIdle /\ EvalIdle /\ I2rIdle /\ RtIdle /\ AncovaIdle /\ HuberIdle /\ ReadyIdle /\ SamplerIdle

\* The tables of the thermal fits: the shortest and the longest with a pair of
\* samples; the power fits: one ridge argument.
RefitRunInit ==
    /\ \/ FitInit /\ Len(fDf) \in {2, MaxFitLen} /\ PmIdle
       \/ FitIdle /\ PmInit /\ pAlpha = 1
    /\ RefitInit
    /\ RefitRest

RefitNext ==
    \/ FitBegin /\ UNCHANGED <<pmVars, refitVars, refitRestVars>>
    \/ FitLoopSkip /\ UNCHANGED <<pmVars, refitVars, refitRestVars>>
    \/ FitLoopTake /\ UNCHANGED <<pmVars, refitVars, refitRestVars>>
    \/ FitReturnFew /\ UNCHANGED <<pmVars, refitVars, refitRestVars>>
    \/ FitReturnRegression /\ UNCHANGED <<pmVars, refitVars, refitRestVars>>
    \/ RefitThermal /\ UNCHANGED <<pmVars, refitRestVars>>
    \/ PmPrepare /\ UNCHANGED <<fitVars, refitVars, refitRestVars>>
    \/ PmThermalRun /\ UNCHANGED <<fitVars, refitVars, refitRestVars>>
    \/ PmConcatRaises /\ UNCHANGED <<fitVars, refitVars, refitRestVars>>
    \/ PmLeak /\ UNCHANGED <<fitVars, refitVars, refitRestVars>>
    \/ PmBase /\ UNCHANGED <<fitVars, refitVars, refitRestVars>>
    \/ PmGps /\ UNCHANGED <<fitVars, refitVars, refitRestVars>>
    \/ PmCell /\ UNCHANGED <<fitVars, refitVars, refitRestVars>>
    \/ PmReturn /\ UNCHANGED <<fitVars, refitVars, refitRestVars>>
    \/ RefitPower /\ UNCHANGED <<fitVars, refitRestVars>>

SpecRefit == RefitRunInit /\ [][RefitNext]_vars

-----------------------------------------------------------------------------
(* fit_power_model_v2, then its parameters written, read back and replayed. *)

roundTripRestVars == <<socVars, tempVars, fitVars, looroVars, evalVars, i2rVars, refitVars, ancovaVars, huberVars, readyVars, samplerVars>>
RoundTripRest == SocIdle /\ TempIdle /\ FitIdle /\ LooroIdle /\ EvalIdle /\ I2rIdle /\ RefitIdle /\ AncovaIdle /\ HuberIdle /\ ReadyIdle /\ SamplerIdle

RoundTripInit == PmInit /\ RtInit /\ RoundTripRest

RoundTripNext ==
    \/ PmPrepare /\ UNCHANGED <<rtVars, roundTripRestVars>>
    \/ PmThermalRun /\ UNCHANGED <<rtVars, roundTripRestVars>>
    \/ PmConcatRaises /\ UNCHANGED <<rtVars, roundTripRestVars>>
    \/ PmLeak /\ UNCHANGED <<rtVars, roundTripRestVars>>
    \/ PmBase /\ UNCHANGED <<rtVars, roundTripRestVars>>
    \/ PmGps /\ UNCHANGED <<rtVars, roundTripRestVars>>
    \/ PmCell /\ UNCHANGED <<rtVars, roundTripRestVars>>
    \/ PmReturn /\ UNCHANGED <<rtVars, roundTripRestVars>>
    \/ RtDump /\ UNCHANGED <<pmVars, roundTripRestVars>>
    \/ RtReplay /\ UNCHANGED <<pmVars, roundTripRestVars>>

SpecRoundTrip == RoundTripInit /\ [][RoundTripNext]_vars

-----------------------------------------------------------------------------
(* One call of adjusted_means. *)

ancovaRestVars == <<socVars, tempVars, fitVars, looroVars, pmVars, evalVars, i2rVars, refitVars, rtVars, huberVars, readyVars, samplerVars>>
AncovaRest == SocIdle /\ TempIdle /\ FitIdle /\ LooroIdle /\ PmIdle /\ EvalIdle /\ I2rIdle /\ RefitIdle /\ RtIdle /\ HuberIdle /\ ReadyIdle /\ SamplerIdle

AncovaRunInit == AncovaInit /\ AncovaRest

AncovaNext ==
    \/ AdjRaises /\ UNCHANGED ancovaRestVars
    \/ AdjFit /\ UNCHANGED ancovaRestVars
    \/ AdjMean /\ UNCHANGED ancovaRestVars
    \/ AdjReturn /\ UNCHANGED ancovaRestVars

SpecAncova == AncovaRunInit /\ [][AncovaNext]_vars

\* The value the loop would append at 0-based index i before clamping.
SocRaw(k) ==
    SocMinus(soc[k], DSoc(SocP(socDf)[k], SocVolt(SocV(socDf)[k]), SocDt(socDf)[k], socCeff))

\* C1: every element of the simulated SOC trajectory, the initial one included,
\* lies in [0, 1], in both simulate_soc versions and at every point of the loop.
C1_SocInUnitInterval ==
    \A k \in 1..Len(soc) : soc[k] >= 0 /\ soc[k] <= SocOne

\* C1 witness: a finished simulation that started strictly inside (0, 1) and in
\* which a step's unclamped value left [0, 1] and was clamped.
C1_Witness ==
    /\ socPc = "done"
    /\ soc[1] > 0 /\ soc[1] < SocOne
    /\ \E k \in 1..(Len(soc) - 1) :
          /\ DtOk(socVer, SocDt(socDf)[k])
          /\ IsFinite(SocRaw(k)) /\ SocRaw(k) < 0
          /\ soc[k + 1] = 0

\* C7: with predicted power 0 in every sample, every element of the trajectory of
\* the v2 simulator equals the initial one, whatever the voltages and dt_s.
C7_ZeroPowerKeepsSoc ==
    (socVer = 2 /\ \A k \in 1..Len(socDf) : socDf[k].power_pred_mW = 0)
        => \A k \in 1..Len(soc) : soc[k] = soc[1]

\* C7 witness: a finished zero-power simulation that integrated a step with a
\* missing or non-positive voltage and met an infinite dt_s, from a nonzero SOC.
C7_Witness ==
    /\ socVer = 2 /\ socPc = "done" /\ Len(soc) = 3 /\ soc[1] > 0
    /\ \A k \in 1..Len(socDf) : socDf[k].power_pred_mW = 0
    /\ \E k \in 1..2 : SocDtValid(SocDt(socDf)[k]) /\ socDf[k].voltage_mV <= 0
    /\ \E k \in 1..2 : socDf[k].dt_s = PosInf

\* A dt_s the simulators must skip: missing, not finite, zero or negative.
DtUnusable(x) == IsNaN(x) \/ x = PosInf \/ x = NegInf \/ x <= 0

\* C8: in simulate_soc (v2) and in both temperature simulators a step whose dt_s is
\* missing, not finite, zero or negative repeats the previous state of every node;
\* no call raises; a finished call returns one element per input sample.
C8_BadDtRepeatsState ==
    /\ socVer = 2 =>
          /\ socPc # "raised"
          /\ \A k \in 1..(Len(soc) - 1) : DtUnusable(socDf[k].dt_s) => soc[k + 1] = soc[k]
          /\ socPc = "done" => Len(soc) = Len(socDf)
    /\ \A k \in 1..(Len(tCpuHat) - 1) :
          DtUnusable(tDf[k].dt_s) =>
              /\ tCpuHat[k + 1] = tCpuHat[k]
              /\ tKind = 2 => tBattHat[k + 1] = tBattHat[k]
    /\ tPc = "done" =>
          /\ Len(tCpuHat) = Len(tDf)
          /\ tKind = 2 => Len(tBattHat) = Len(tDf) /\ Len(tLeakHat) = Len(tDf)

\* C8 witness: a finished 2-state simulation that moved both nodes in one step and
\* then met an infinite dt_s.
C8_Witness ==
    /\ tPc = "done" /\ tKind = 2 /\ Len(tDf) = 3
    /\ TempDtValid(SocDt(tDf)[1])
    /\ tCpuHat[2] # tCpuHat[1] /\ tBattHat[2] # tBattHat[1]
    /\ tDf[2].dt_s = PosInf

\* The number of usable finite-difference pairs of a run: consecutive sample pairs
\* (k, k+1) whose dt_s at k is finite and > 0.
RECURSIVE UsablePairsUpTo(_, _)
UsablePairsUpTo(df, k) ==
    IF k <= 0 THEN 0
    ELSE (IF DtUnusable(df[k].dt_s) THEN 0 ELSE 1) + UsablePairsUpTo(df, k - 1)
UsablePairs(df) == UsablePairsUpTo(df, Len(df) - 1)

\* The unclamped regression results of the finished call.
RawBeta1 == RidgeFit2(fX1, fX2, fZ1)
RawBeta2 == RidgeFit2(fX3, fX4, fZ2)

\* The stepwise call returns what FitThermalOf computes.
FitAgrees == fPc = "done" => fTh = FitThermalOf(fDf, fKind)

\* C2: every parameter set the thermal fitter returns, on each of its return paths,
\* has cooling coefficients <= 0 and heating/coupling coefficients >= 0
\* (1-state: a_per_s, b_C_per_J; 2-state: a_cpu_per_s, a_batt_per_s,
\* b_cpu_C_per_J, b_couple_per_s).
C2_ThermalSigns ==
    fPc = "done" =>
        IF fKind = 1
        THEN /\ fTh.a_per_s[2] > 0 /\ fTh.a_per_s[1] <= 0
             /\ fTh.b_C_per_J[2] > 0 /\ fTh.b_C_per_J[1] >= 0
        ELSE /\ fTh.a_cpu_per_s[2] > 0 /\ fTh.a_cpu_per_s[1] <= 0
             /\ fTh.a_batt_per_s[2] > 0 /\ fTh.a_batt_per_s[1] <= 0
             /\ fTh.b_cpu_C_per_J[2] > 0 /\ fTh.b_cpu_C_per_J[1] >= 0
             /\ fTh.b_couple_per_s[2] > 0 /\ fTh.b_couple_per_s[1] >= 0

\* C2 witness: a 2-state regression whose unclamped CPU cooling coefficient was
\* positive and whose unclamped coupling was negative (both clamped), while the
\* battery cooling coefficient was returned as fitted, strictly negative.
C2_Witness ==
    /\ fPc = "done" /\ fKind = 2 /\ fPath = "regression"
    /\ RatPos(RawBeta1[1]) /\ fTh.a_cpu_per_s = Rat(-1, 2000)
    /\ RatNeg(RawBeta2[2]) /\ fTh.b_couple_per_s = Rat(0, 1)
    /\ RatNeg(RawBeta2[1]) /\ fTh.a_batt_per_s = RawBeta2[1]

\* The fixed fallback coefficients (the ambient temperature is the run's).
IsFallback(kind, th) ==
    IF kind = 1
    THEN th.a_per_s = Rat(-1, 2000) /\ th.b_C_per_J = Rat(0, 1)
    ELSE /\ th.a_cpu_per_s = Rat(-1, 200) /\ th.b_cpu_C_per_J = Rat(0, 1)
         /\ th.a_batt_per_s = Rat(-1, 2000) /\ th.b_couple_per_s = Rat(0, 1)

\* C4 as stated: a run with fewer than 10 usable pairs gets the fixed fallback
\* parameters, and a run with 10 or more usable pairs takes the regression path.
C4_AsStated ==
    fPc = "done" =>
        /\ UsablePairs(fDf) < 10 => fPath # "regression" /\ IsFallback(fKind, fTh)
        /\ UsablePairs(fDf) >= 10 => fPath = "regression"

\* C4 (amended): a run with fewer than 10 usable pairs, or with no valid reading in
\* a temperature column the fit observes, gets the fixed fallback parameters; a run
\* with 10 or more usable pairs and a valid reading in every observed temperature
\* column takes the regression path.
C4_FallbackBelowTenPairs ==
    fPc = "done" =>
        /\ (UsablePairs(fDf) < 10 \/ FitNoTemp(fDf, fKind))
              => fPath # "regression" /\ IsFallback(fKind, fTh)
        /\ (UsablePairs(fDf) >= 10 /\ ~FitNoTemp(fDf, fKind)) => fPath = "regression"

\* C4 witness: a run of more than 11 samples with valid temperatures that has
\* exactly 9 usable pairs and returned the fallback from the pair-count test.
C4_Witness ==
    /\ fPc = "done" /\ fPath = "few_fallback"
    /\ Len(fDf) > 11 /\ UsablePairs(fDf) = 9
    /\ IsFallback(fKind, fTh)

\* The runs of the input table, the rows of a run, its rows with measured power,
\* and the runs with at least 30 rows with measured power.
DatasetRuns == {lDf[k].run_name : k \in 1..Len(lDf)}
RowsOfRun(name) == {k \in 1..Len(lDf) : lDf[k].run_name = name}
MeasuredOfRun(name) == {k \in RowsOfRun(name) : lDf[k].power_total_mW # NaN}
EvalRuns == {name \in DatasetRuns : Cardinality(MeasuredOfRun(name)) >= 30}
HeldOut == {lFolds[j].split : j \in 1..Len(lFolds)}
\* No row of the other evaluated runs has a dt_s > 0.
NoUsableTraining(name) ==
    \A r \in EvalRuns \ {name} : \A k \in MeasuredOfRun(r) : DtUnusable(lDf[k].dt_s)

\* C5 as stated: a finished leave-one-run-out evaluation of a table of N runs has
\* N folds; a fold's test partition is the rows of one run, its training partition
\* the rows of the other runs; each run is held out in exactly one fold.
C5_AsStated ==
    lPc \in {"done", "raised"} =>
        /\ Len(lFolds) = Cardinality(DatasetRuns)
        /\ HeldOut = DatasetRuns
        /\ \A j \in 1..Len(lFolds) :
              /\ lFolds[j].test = RowsOfRun(lFolds[j].split)
              /\ lFolds[j].train = (1..Len(lDf)) \ RowsOfRun(lFolds[j].split)
              /\ lFolds[j].train \cap lFolds[j].test = {}

\* C5 (amended): the folds are taken over the K runs that have at least 30 rows
\* with measured power.  Every fold holds out one such run, not held out before;
\* its test partition is exactly that run's rows with measured power, its training
\* partition exactly the rows with measured power of the other K-1 such runs, and
\* the two are disjoint.  An evaluation that finishes has exactly K >= 1 folds, one
\* per such run; it ends with an exception instead only if K = 0 or some fold's
\* training partition has no row with dt_s > 0 (as when K = 1).
C5_LooroFolds ==
    /\ \A j \in 1..Len(lFolds) :
          /\ lFolds[j].split \in EvalRuns
          /\ lFolds[j].test = MeasuredOfRun(lFolds[j].split)
          /\ lFolds[j].train = UNION {MeasuredOfRun(r) : r \in EvalRuns \ {lFolds[j].split}}
          /\ lFolds[j].train \cap lFolds[j].test = {}
          /\ \A i \in 1..Len(lFolds) : i # j => lFolds[i].split # lFolds[j].split
    /\ lPc = "done" =>
          /\ Len(lFolds) = Cardinality(EvalRuns)
          /\ HeldOut = EvalRuns
          /\ EvalRuns # {}
    /\ lPc = "raised" =>
          \/ EvalRuns = {}
          \/ \E r \in EvalRuns : NoUsableTraining(r)

\* C5 witness: a finished evaluation of a table of three runs, one of them with
\* fewer than 30 measured rows, that produced two folds, one of which holds out a
\* run that also has a row without measured power.
C5_Witness ==
    /\ lPc = "done"
    /\ Cardinality(DatasetRuns) = 3
    /\ Len(lFolds) = 2
    /\ \E j \in 1..2 : lFolds[j].test # RowsOfRun(lFolds[j].split)
    /\ \E r \in DatasetRuns \ EvalRuns : Cardinality(RowsOfRun(r)) >= 30

\* The stepwise simulators return what the function form computes.
SimAgrees ==
    tPc = "done" =>
        /\ tKind = 1 => tCpuHat = [k \in 1..Len(tDf) |-> SimT1At(tDf, tTh, k)]
        /\ tKind = 2 => /\ tCpuHat = [k \in 1..Len(tDf) |-> SimT2At(tDf, tTh, k)[1]]
                        /\ tBattHat = [k \in 1..Len(tDf) |-> SimT2At(tDf, tTh, k)[2]]
                        /\ tLeakHat = SimLeakTemp(tDf, 2, tTh, tMix)

-----------------------------------------------------------------------------
(* The subsystem-OFF offsets of the power model fitter. *)

\* The samples of the input table that the fitter keeps.
UsedSample(r) == ~IsNaN(r.dt_s) /\ r.dt_s > 0 /\ ~IsNaN(r.power_total_mW)
RunPresent(name) == \E k \in DOMAIN pAll : pAll[k].run_name = name /\ UsedSample(pAll[k])

\* The base regression output of the returned parameters on sample k of df2.
BaseOutput(k) ==
    LET q == pOut.params
    IN  RatAdd(RatAdd(q.p_base_mW, RatTimes(q.k_screen, pDf2[k].power_screen_mW)),
               RatAdd(RatTimes(q.k_cpu, pDf2[k].power_cpu_mW),
                      RatNorm(q.k_leak_mW[1] * pFeat[k], q.k_leak_mW[2] * LeakUnit)))
BaseResidual(k) == RatSub(Rat(pDf2[k].power_total_mW, 1), BaseOutput(k))
RECURSIVE ResidualSum(_, _)
ResidualSum(name, k) ==
    IF k = 0 THEN Rat(0, 1)
    ELSE IF pDf2[k].run_name = name THEN RatAdd(BaseResidual(k), ResidualSum(name, k - 1))
    ELSE ResidualSum(name, k - 1)
MeanResidual(name) ==
    LET sum == ResidualSum(name, Len(pDf2))
    IN  RatNorm(sum[1], sum[2] * Cardinality({k \in DOMAIN pDf2 : pDf2[k].run_name = name}))
ResidualGap(off, on) == RatSub(MeanResidual(off), MeanResidual(on))
ExpectedOffset(off, on) ==
    IF RunPresent(off) /\ RunPresent(on)
    THEN (IF ResidualGap(off, on)[1] < 0 THEN ResidualGap(off, on) ELSE Rat(0, 1))
    ELSE Rat(0, 1)

C9_WitnessNegative ==
    /\ pPc = "done"
    /\ RunPresent(CellOffRun) /\ RunPresent(CellOnRun)
    /\ pOut.params.k_cellular_off_mW[1] < 0
    /\ pOut.params.k_cellular_off_mW = ResidualGap(CellOffRun, CellOnRun)

\* The rows of a run in the input table, in table order.
RunSamples(name) == SelectSeq(pAll, LAMBDA r : r.run_name = name)
\* Two runs identical in every column except is_gps_on and the measured power; the
\* first has is_gps_on = 0 throughout and a measured power that is not higher.
SameButGps(a, b) ==
    /\ Len(a) = Len(b)
    /\ Len(a) > 0
    /\ \A k \in 1..Len(a) :
        /\ a[k].dt_s = b[k].dt_s
        /\ a[k].power_screen_mW = b[k].power_screen_mW
        /\ a[k].power_cpu_mW = b[k].power_cpu_mW
        /\ a[k].cellular_on = b[k].cellular_on
        /\ a[k].temperature_cpu_C = b[k].temperature_cpu_C
        /\ a[k].temperature_C = b[k].temperature_C
        /\ a[k].is_gps_on = 0
        /\ IsNaN(a[k].power_total_mW) = IsNaN(b[k].power_total_mW)
        /\ ~IsNaN(a[k].power_total_mW) => a[k].power_total_mW <= b[k].power_total_mW
GpsPair == SameButGps(RunSamples(GpsOffRun), RunSamples(GpsOnRun))

RECURSIVE PowerSum(_, _, _)
PowerSum(rows, Keep(_), k) ==
    IF k = 0 THEN 0
    ELSE (IF Keep(rows[k]) THEN rows[k].power_total_mW ELSE 0) + PowerSum(rows, Keep, k - 1)
MeanPower(rows, Keep(_)) ==
    RatNorm(PowerSum(rows, Keep, Len(rows)), Cardinality({k \in DOMAIN rows : Keep(rows[k])}))
Measured(r) == ~IsNaN(r.power_total_mW)

-----------------------------------------------------------------------------
(* The evaluation folds fit on the training partition. *)

\* The training rows of the fold in a table: the rows of the runs not held out.
TrainingRows(t) == SelectSeq(t, LAMBDA r : r.run_name # eHeld)
HeldOutRows(t) == SelectSeq(t, LAMBDA r : r.run_name = eHeld)

\* C6: two input tables that agree on all training rows of a fold, whatever their
\* held-out rows, give the fold the same fitted parameters (base, slopes, leak
\* T_ref, OFF offsets), or make the fit raise in both.
C6_FitOnTrainingOnly ==
    (ePc = "done" /\ TrainingRows(eDf[1]) = TrainingRows(eDf[2])) =>
        /\ eOut[1].raised = eOut[2].raised
        /\ ~eOut[1].raised => eOut[1].params = eOut[2].params

\* Both evaluations completed on tables whose held-out rows differ; the held-out
\* rows changed the error of the fold and nothing of its parameters.
C6_Witness ==
    /\ ePc = "done"
    /\ TrainingRows(eDf[1]) = TrainingRows(eDf[2])
    /\ TrainingRows(eDf[1]) # <<>>
    /\ HeldOutRows(eDf[1]) # HeldOutRows(eDf[2])
    /\ ~eOut[1].raised /\ ~eOut[2].raised
    /\ eOut[1].power_sample_mae_mW # eOut[2].power_sample_mae_mW
    /\ eOut[1].params = eOut[2].params

-----------------------------------------------------------------------------
(* Loss-term coefficients *)

\* A fold the loop has recorded, with its vector beta.
FoldRecorded(k) == k \in 1..Len(irBeta)
CoefficientNonNegative(beta, j) == (~beta.nan) /\ beta.num[j] >= 0 /\ beta.den > 0

\* C3: in every leave-one-scenario-out fold of the I^2R fit, every coefficient
\* of the vector beta recorded for the fold, which is the one used to predict
\* the held-out scenario, is a number >= 0, whatever the model variant.
C3_RecordedBetaNonNegative ==
    \A k \in 1..Len(irBeta) :
        /\ FoldRecorded(k)
        /\ \A j \in 1..I2rColumns(irModel) : CoefficientNonNegative(irBeta[k].beta, j)

-----------------------------------------------------------------------------
(* A calibration pair with a run missing from the fit. *)

GpsPairAbsent == ~RunPresent(GpsOffRun) \/ ~RunPresent(GpsOnRun)
CellPairAbsent == ~RunPresent(CellOffRun) \/ ~RunPresent(CellOnRun)
NoCorrection == [k |-> Rat(0, 1), source |-> "none"]
\* k * (1 - flag), the term the fitter adds for a subsystem
OffsetTerm(k, flag) == RatTimes(k, 1 - flag)

\* C11 as the spec states it: with a run of a pair absent the call does not raise,
\* the offset is 0, the source is "none", and the predicted power of a sample
\* with that subsystem off is the base regression output.
C11_AsStated ==
    /\ (GpsPairAbsent \/ CellPairAbsent) => pPc # "raised"
    /\ (pPc = "done" /\ GpsPairAbsent) =>
           /\ pOut.params.k_gps_off_mW = Rat(0, 1)
           /\ pOut.gps_fit_source = "none"
           /\ \A k \in DOMAIN pDf2 :
                  pDf2[k].is_gps_on = 0 => pOut.power_pred_mW[k] = BaseOutput(k)
    /\ (pPc = "done" /\ CellPairAbsent) =>
           /\ pOut.params.k_cellular_off_mW = Rat(0, 1)
           /\ pOut.cell_fit_source = "none"
           /\ \A k \in DOMAIN pDf2 :
                  pDf2[k].cellular_on = 0 => pOut.power_pred_mW[k] = BaseOutput(k)

\* C11: with a run of a pair absent from the fit, the offset of that subsystem
\* is exactly 0 and its source "none", and the predicted power of every sample
\* is the base regression output plus the other subsystem's offset term alone;
\* the offset steps never raise: the call raises only when the fit keeps no
\* sample at all.
C11_AbsentPairNoCorrection ==
    /\ (pPc \in {"cell", "predict", "done"} /\ GpsPairAbsent) => pKGps = NoCorrection
    /\ (pPc \in {"predict", "done"} /\ CellPairAbsent) => pKCell = NoCorrection
    /\ (pPc = "done" /\ GpsPairAbsent) =>
           /\ pOut.params.k_gps_off_mW = Rat(0, 1)
           /\ pOut.gps_fit_source = "none"
           /\ \A k \in DOMAIN pDf2 :
                  pOut.power_pred_mW[k] =
                      RatAdd(BaseOutput(k),
                             OffsetTerm(pOut.params.k_cellular_off_mW, pDf2[k].cellular_on))
    /\ (pPc = "done" /\ CellPairAbsent) =>
           /\ pOut.params.k_cellular_off_mW = Rat(0, 1)
           /\ pOut.cell_fit_source = "none"
           /\ \A k \in DOMAIN pDf2 :
                  pOut.power_pred_mW[k] =
                      RatAdd(BaseOutput(k), OffsetTerm(pOut.params.k_gps_off_mW, pDf2[k].is_gps_on))
    /\ pPc = "raised" => pDf = <<>>

\* The GPS pair lacks a run, the cellular pair yields a negative offset, and a
\* fitted sample has GPS and cellular both off: its predicted power is the base
\* output plus the cellular offset.
C11_Witness ==
    /\ pPc = "done"
    /\ GpsPairAbsent
    /\ pOut.gps_fit_source = "none"
    /\ pOut.params.k_cellular_off_mW[1] < 0
    /\ \E k \in DOMAIN pDf2 :
           /\ pDf2[k].is_gps_on = 0 /\ pDf2[k].cellular_on = 0
           /\ pOut.power_pred_mW[k] # BaseOutput(k)

-----------------------------------------------------------------------------
(* Refitting on the same table *)

-----------------------------------------------------------------------------
(* The replay of a fit from its parameters *)

\* The predicted power the fit gave the samples of a run, in table order ...
FitPowerIdx(name) == SelectSeq(Listed([k \in 1..Len(pDf2) |-> k]), LAMBDA k : pDf2[k].run_name = name)
FitPowerOf(name) == [j \in 1..Len(FitPowerIdx(name)) |-> pOut.power_pred_mW[FitPowerIdx(name)[j]]]
\* ... and the predicted power the replay gives the same samples.
ReplayIdx(name) ==
    SelectSeq(Listed([k \in 1..Len(rtPred) |-> k]),
              LAMBDA k : rtPred[k].row.run_name = name /\ PmKeepRow(rtPred[k].row))
ReplayPowerOf(name) == [j \in 1..Len(ReplayIdx(name)) |-> rtPred[ReplayIdx(name)[j]].power_pred_mW]
FittedRuns == {pDf2[k].run_name : k \in 1..Len(pDf2)}

\* C13: the parameters of a fit, written, read back and handed to
\* predict_power_v2 with the table of the fit, give every sample of the fit the
\* predicted power the fit itself gave it.
C13_ReplayReproducesFit ==
    rtPc = "done" => \A name \in FittedRuns : ReplayPowerOf(name) = FitPowerOf(name)

\* ---------------------------------------------------------------------------
\* The caller's table across a fit and a prediction
\* ---------------------------------------------------------------------------

\* The partitions as eval_split cut them from the table it was given.
EvalCutOf == EvalMask(eDf[eC], eHeld)
EvalPartitioned == ePc \notin {"idle", "call"}
EvalFitCalled == ePc \in {"fitting", "predict", "summary", "next", "done"}

OnlyRun(all, name) == LET InRun(r) == r.run_name = name IN SelectSeq(all, InRun)
\* temp_leak_hat_C of the samples the fit kept of one run
FitLeakTempOf(name) == [j \in 1..Len(FitPowerIdx(name)) |-> pLeakT[FitPowerIdx(name)[j]]]
\* the rows predict_power_v2 returned for one run
ReplayRowsOf(name) == SelectSeq(rtPred, LAMBDA o : o.row.run_name = name)
\* the loop over the runs has just ended: thermal_rows and t_hat_all are complete
ThermalLoopOver == pPc = "base"
ReplayedRuns == {pAll[k].run_name : k \in 1..Len(pAll)}

\* C15: inside fit_power_model_v2 the thermal parameters and the simulated
\* temperature of a run are those of the table that holds this run alone, and
\* predict_power_v2 gives the samples of a run what it gives them when the table
\* holds this run alone: the samples of the other runs have no influence.
C15_RunThermalIsItsOwn ==
    /\ ThermalLoopOver =>
         \A name \in FittedRuns :
            LET own == PmClean(OnlyRun(pAll, name)) IN
            /\ FitLeakTempOf(name) = PmRunLeakTemp(own, pKind, MixDefault)
            /\ FitThermalOf(PmRunOf(pDf, name), pKind) = FitThermalOf(own, pKind)
    /\ rtPc = "done" =>
         \A name \in ReplayedRuns :
            ReplayRowsOf(name)
                = PredictPower(OnlyRun(pAll, name), RtLoaded(rtArtifact), pKind, MixDefault)

\* A fit of two runs whose simulated temperatures differ has been replayed.
C15_Witness ==
    /\ rtPc = "done"
    /\ \E n1 \in FittedRuns, n2 \in FittedRuns :
          /\ n1 # n2
          /\ \E j \in 1..Len(FitLeakTempOf(n1)), k \in 1..Len(FitLeakTempOf(n2)) :
                /\ ~IsNaN(FitLeakTempOf(n1)[j])
                /\ ~IsNaN(FitLeakTempOf(n2)[k])
                /\ FitLeakTempOf(n1)[j] # FitLeakTempOf(n2)[k]

\* ---------------------------------------------------------------------------
\* A fold whose training partition keeps no sample
\* ---------------------------------------------------------------------------

\* C16: a degenerate fold never aborts the evaluation.  The leave-one-run-out
\* loop of main never ends by an exception while a fold is still to be
\* evaluated: eval_split returns for every fold, so the loop always reaches the
\* folds that remain.
C16_DegenerateFoldDoesNotAbort == lPc = "raised" => lTodo = <<>>

\* ---------------------------------------------------------------------------
\* An idle run: constant temperature, no CPU power
\* ---------------------------------------------------------------------------

\* Every sample the fit kept is at 25 C with a zero CPU-power proxy.
IdleFit ==
    /\ pPc = "done"
    /\ pDf2 # <<>>
    /\ \A k \in 1..Len(pDf2) :
          pDf2[k].power_cpu_mW = 0 /\ pDf2[k].temperature_cpu_C = TempBase
\* The heating coefficient of the per-run thermal fit.
HeatCoef(th, kind) == IF kind = 1 THEN th.b_C_per_J ELSE th.b_cpu_C_per_J
IdleHeatCoefZero ==
    \A name \in FittedRuns : HeatCoef(FitThermalOf(PmRunOf(pDf, name), pKind), pKind)[1] = 0
IdleTempConstant == \A k \in 1..Len(pLeakT) : pLeakT[k] = TempBase
\* k_leak * leak_feat of sample k, as an exact fraction
LeakContribution(k) ==
    RatNorm(pOut.params.k_leak_mW[1] * pFeat[k], pOut.params.k_leak_mW[2] * LeakUnit)
\* |a| <= |b| / 10
RatTenthOf(a, b) == 10 * Abs(a[1]) * b[2] <= Abs(b[1]) * a[2]

\* C17: for an idle run the thermal fit gives b = 0, the simulated temperature
\* stays at 25 C, and the leak term adds next to nothing (here: at most a tenth)
\* to the predicted power of any sample.
C17_IdleRunNoLeakContribution ==
    IdleFit =>
        /\ IdleHeatCoefZero
        /\ IdleTempConstant
        /\ \A k \in 1..Len(pDf2) : RatTenthOf(LeakContribution(k), pOut.power_pred_mW[k])

\* The two thermal parts alone.
IdleRunThermal == IdleFit => IdleHeatCoefZero /\ IdleTempConstant
\* The leak term of an idle fit is exactly the intercept.
IdleLeakIsIntercept ==
    IdleFit => \A k \in 1..Len(pDf2) : LeakContribution(k) = pOut.params.p_base_mW

\* ---------------------------------------------------------------------------
\* The base regression and the samples with a subsystem off
\* ---------------------------------------------------------------------------

\* The fitted table with the measured power of sample k changed by d.
PowerChanged(df2, k, d) ==
    SubSeq([j \in 1..Len(df2) |->
               IF j = k THEN [df2[j] EXCEPT !.power_total_mW = df2[j].power_total_mW + d]
               ELSE df2[j]], 1, Len(df2))
\* the samples recorded with GPS off or with cellular off
OffSamples == {k \in 1..Len(pDf2) : pDf2[k].is_gps_on = 0 \/ pDf2[k].cellular_on = 0}
BaseFitted == pPc = "gps"
PowerChanges == {-1, 3}

BaseResid ==
    LET idx == PmBaseIdx(pDf2)
    IN  [j \in 1..Len(idx) |-> pDf2[idx[j]].power_total_mW * pBeta.den - pP0[idx[j]]]
\* twice the median of a column without missing values
KthOf(c, k) ==
    CHOOSE x \in {c[j] : j \in 1..Len(c)} :
        /\ Cardinality({j \in 1..Len(c) : c[j] < x}) < k
        /\ Cardinality({j \in 1..Len(c) : c[j] <= x}) >= k
Median2Of(c) ==
    IF Len(c) % 2 = 1 THEN 2 * KthOf(c, (Len(c) + 1) \div 2)
    ELSE KthOf(c, Len(c) \div 2) + KthOf(c, (Len(c) \div 2) + 1)
Median2(col) == CHOOSE m \in {Median2Of(c) : c \in {SelectSeq(Listed(col), LAMBDA x : ~IsNaN(x))}} : TRUE
\* mad = np.median(np.abs(r - np.median(r))), times 4
HuberMad4(r) == Median2([j \in 1..Len(r) |-> Abs(2 * r[j] - Median2(r))])
\* n^2 times the variance of r (np.std(r) squared)
HuberVarN2(r) == Len(r) * Dot(r, r) - Dot(r, ConstCol(Len(r), 1)) * Dot(r, ConstCol(Len(r), 1))
\* _huber_weights: the samples with |r / s| > c, for c = 1.5 and
\* s = 1.4826 * mad if mad > 0 else (np.std(r) if np.std(r) > 0 else 1.0); the
\* residuals are in units of 1 / unit.
HuberOutlier(r, j, unit) ==
    IF HuberMad4(r) > 0 THEN 40000 * Abs(r[j]) > 22239 * HuberMad4(r)
    ELSE IF HuberVarN2(r) > 0 THEN 4 * Len(r) * Len(r) * r[j] * r[j] > 9 * HuberVarN2(r)
    ELSE 2 * Abs(r[j]) > 3 * Abs(unit)

\* C20: the base coefficients are the result of a Huber-weighted solve.  Every
\* base sample entered the solve that produced the coefficients with its Huber
\* weight at these coefficients: no sample whose standardized residual exceeds
\* the threshold was solved for with full weight.
C20_BaseSolveIsHuberWeighted ==
    BaseFitted /\ pBeta.den # 0 =>
        \A j \in 1..Len(BaseResid) : ~HuberOutlier(BaseResid, j, pBeta.den)

\* ---------------------------------------------------------------------------
\* Which rows the coefficients applied to a scenario were fitted on
\* ---------------------------------------------------------------------------

\* C18: the secondary fitters are leave-one-scenario-out.  For the scenario
\* covariate adjustment: the coefficients that give a scenario its adjusted
\* mean were fitted on rows of other scenarios only.
C18_AdjustedOnOtherScenariosOnly ==
    \A j \in 1..Len(anAdj) :
        \A k \in 1..Len(anAdj[j].beta.rows) :
            anDf[anAdj[j].beta.rows[k]].scenario # anAdj[j].scenario

\* What adjusted_means does instead: one fit, on every complete row, serves
\* every scenario.
AdjOneFitForAll ==
    \A j \in 1..Len(anAdj) :
        /\ anAdj[j].beta = anFit
        /\ anFit.rows = AdjComplete(anDf, anCols)
        /\ \E k \in 1..Len(anFit.rows) : anDf[anFit.rows[k]].scenario = anAdj[j].scenario

\* ---------------------------------------------------------------------------
\* Predicted power = base output + the offsets of the subsystems that are off
\* ---------------------------------------------------------------------------

\* a <= b for two fractions with positive denominators
RatLeq(a, b) == a[1] * b[2] <= b[1] * a[2]
\* the offset of a subsystem, counted only in a sample in which it is off
OffsetIfOff(k, flag) == IF flag = 0 THEN k ELSE Rat(0, 1)
\* the parameters read back, with both offsets taken out
ReplayParamsNoOffsets ==
    [RtLoaded(rtArtifact) EXCEPT !.k_gps_off_mW = Rat(0, 1), !.k_cellular_off_mW = Rat(0, 1)]
\* predict_power_v2's base output p0 of every sample of the replayed table
ReplayBase == Listed(PredictPower(pAll, ReplayParamsNoOffsets, pKind, MixDefault))

VoltEarlier(df, i) == {j \in 1..(i - 1) : ~IsNaN(df[j].voltage_mV)}
VoltLater(df, i) == {j \in (i + 1)..Len(df) : ~IsNaN(df[j].voltage_mV)}
MaxOf(S) == CHOOSE x \in S : \A y \in S : y <= x
MinOf(S) == CHOOSE x \in S : \A y \in S : x <= y
\* a reading that is not positive is replaced by the nominal voltage
PositiveOrNominal(v) == IF IsNaN(v) \/ v <= 0 THEN NominalMilliVolt ELSE v
\* V[i] as stated: the reading of sample i, else the last earlier reading,
\* else the nominal voltage
VoltStated(df, i) ==
    PositiveOrNominal(
        IF ~IsNaN(df[i].voltage_mV) THEN df[i].voltage_mV
        ELSE IF VoltEarlier(df, i) # {} THEN df[MaxOf(VoltEarlier(df, i))].voltage_mV
        ELSE NaN)
\* V[i]: the reading of sample i, else the last earlier reading, else the first
\* later reading, else the nominal voltage
VoltUsed(df, i) ==
    PositiveOrNominal(
        IF ~IsNaN(df[i].voltage_mV) THEN df[i].voltage_mV
        ELSE IF VoltEarlier(df, i) # {} THEN df[MaxOf(VoltEarlier(df, i))].voltage_mV
        ELSE IF VoltLater(df, i) # {} THEN df[MinOf(VoltLater(df, i))].voltage_mV
        ELSE NaN)
\* the steps simulate_soc (v2) has made with a finite positive dt_s
EulerSteps == {i \in 1..(Len(soc) - 1) : socVer = 2 /\ SocDtValid(SocDt(socDf)[i])}
SocStepWith(i, vi) ==
    SocClamp(SocMinus(soc[i], DSoc(SocP(socDf)[i], vi, SocDt(socDf)[i], socCeff)))

\* C22 as the spec states it: a missing voltage is replaced by the last valid
\* earlier reading, and by the nominal 3.85 V when there is none.
C22_AsStated ==
    \A i \in EulerSteps : soc[i + 1] = SocStepWith(i, VoltStated(socDf, i))

\* C22: every step with a finite positive dt_s is
\* soc[i+1] = clamp(soc[i] - P[i] / (V[i] * 3600 * C_eff) * dt_s, 0, 1), where
\* V[i] is the reading of sample i, or the last earlier reading when it is
\* missing, or the first later reading when no earlier one exists, or 3.85 V
\* when the run has no reading at all; a reading that is not positive counts
\* as 3.85 V.
C22_StepUsesFilledVoltage ==
    \A i \in EulerSteps : soc[i + 1] = SocStepWith(i, VoltUsed(socDf, i))

\* A finished simulation in which the second step took a missing voltage from
\* the earlier of two different readings and moved the state.
C22_Witness ==
    /\ socPc = "done"
    /\ socVer = 2
    /\ Len(soc) = 3
    /\ 2 \in EulerSteps
    /\ IsNaN(socDf[2].voltage_mV)
    /\ ~IsNaN(socDf[1].voltage_mV) /\ ~IsNaN(socDf[3].voltage_mV)
    /\ socDf[1].voltage_mV # socDf[3].voltage_mV
    /\ soc[3] # soc[2]
    /\ soc[3] # SocStepWith(2, socDf[3].voltage_mV)

\* ---------------------------------------------------------------------------
\* Forward Euler on the simulated temperature; the leak temperature as a mix
\* ---------------------------------------------------------------------------

\* T + rate * dt for a rate in micro-units per second
EulerStep(T, rate, dt) == T + RoundDiv(rate * dt, Micro)
\* the steps a temperature simulator has made with a valid dt_s
TempEulerSteps == {i \in 1..(Len(tCpuHat) - 1) : TempDtValid(SocDt(tDf)[i])}
Between(x, a, b) == (a <= x /\ x <= b) \/ (b <= x /\ x <= a)
\* leak_temp_mix_cpu clipped to [0, 1]
MixClipped == IF IsNaN(tMix) THEN MixDefault ELSE IF tMix < 0 THEN 0 ELSE IF tMix > MixOne THEN MixOne ELSE tMix

\* C23: the simulators start from the first measured temperature (the ambient
\* parameter when none is measured) and make, for every step with a valid
\* dt_s, T[i+1] = T[i] + dTdt(T[i], heat[i]) * dt_s per node on the previously
\* simulated temperatures; the 2-state leak temperature of every sample is
\* w * T_cpu + (1 - w) * T_batt with w clipped to [0, 1] and lies between the
\* two simulated node temperatures.
C23_ForwardEulerAndLeakMix ==
    /\ tCpuHat # <<>> => tCpuHat[1] = TStart(Col(tDf, "temperature_cpu_C"), tTh)
    /\ tKind = 1 =>
         \A i \in TempEulerSteps :
            tCpuHat[i + 1] =
                EulerStep(tCpuHat[i],
                          tTh.a_per_s * (tCpuHat[i] - tTh.t_amb_C) + tTh.b_C_per_J * PHeat(tDf)[i],
                          SocDt(tDf)[i])
    /\ tKind = 2 =>
         /\ Len(tBattHat) = Len(tCpuHat)
         /\ \A i \in TempEulerSteps :
               /\ tCpuHat[i + 1] =
                     EulerStep(tCpuHat[i],
                               tTh.a_cpu_per_s * (tCpuHat[i] - tBattHat[i])
                                   + tTh.b_cpu_C_per_J * PHeat(tDf)[i],
                               SocDt(tDf)[i])
               /\ tBattHat[i + 1] =
                     EulerStep(tBattHat[i],
                               tTh.a_batt_per_s * (tBattHat[i] - tTh.t_amb_C)
                                   + tTh.b_couple_per_s * (tCpuHat[i] - tBattHat[i]),
                               SocDt(tDf)[i])
    /\ (tPc = "done" /\ tKind = 2) =>
         /\ Len(tLeakHat) = Len(tCpuHat)
         /\ \A k \in 1..Len(tLeakHat) :
               /\ tLeakHat[k] =
                     RoundDiv(MixClipped * tCpuHat[k] + (MixOne - MixClipped) * tBattHat[k], MixOne)
               /\ Between(tLeakHat[k], tCpuHat[k], tBattHat[k])

\* A finished 2-state simulation of three samples with a mix above 1 (clipped),
\* two Euler steps that moved the CPU node away from what was measured, and
\* the two nodes at different temperatures.
C23_Witness ==
    /\ tPc = "done"
    /\ tKind = 2
    /\ tMix > MixOne
    /\ TempEulerSteps = {1, 2}
    /\ tCpuHat[2] # tCpuHat[1] /\ tCpuHat[3] # tCpuHat[2]
    /\ tCpuHat[3] # tDf[3].temperature_cpu_C
    /\ tCpuHat[3] # tBattHat[3]

\* ---------------------------------------------------------------------------
\* The regression target of the secondary fitters
\* ---------------------------------------------------------------------------

\* max(0, measured - base_predicted) of one run of the scenario table
AdjPositiveResidual(r) == NpMax0(NanSub(r.y, r.p_pred_mean_mW))

AdjTargetIsYColumn ==
    anFit # NoValue =>
        \A j \in 1..Len(anFit.rows) : anFit.y[j] = anDf[anFit.rows[j]].y

\* The I2R variant: the target of every training row of every fold is the
\* positive part of its residual.
I2rTargetIsPositiveResidual ==
    (irPc = "fold" /\ irTodo # <<>>) =>
        LET train == I2rTrainRows(irDf, Head(irTodo))
        IN  \A k \in 1..Len(train) :
               /\ I2rY(train[k]) >= 0
               /\ I2rY(train[k]) =
                     (IF train[k].p_meas_mean_mW < train[k].p_pred_mean_mW THEN 0
                      ELSE train[k].p_meas_mean_mW - train[k].p_pred_mean_mW)

\* ---------------------------------------------------------------------------
\* The scale s of an I^2R fold
\* ---------------------------------------------------------------------------

\* The training rows of a recorded fold and, per row, beta.den * (X @ beta)
\* and the residual (not clipped).
FoldTrain(k) == I2rTrainRows(irDf, irBeta[k].scenario)
FoldXb(k) ==
    LET train == FoldTrain(k)
    IN  Listed([j \in 1..Len(train) |-> I2rDot(I2rDesignRow(train[j], irModel), irBeta[k].beta)])
FoldResid(k) ==
    LET train == FoldTrain(k) IN Listed([j \in 1..Len(train) |-> I2rResid(train[j])])
FoldFinite(k) == (~irBeta[k].beta.nan) /\ \A j \in 1..Len(FoldXb(k)) : ~IsNaN(FoldXb(k)[j])
\* s = max(0, <Xb, resid> / <Xb, Xb>) with Xb = u / den, or 1 when Xb is zero
ScaleIsLeastSquares(s, u, r, den) ==
    IF Dot(u, u) = 0 THEN s = Rat(1, 1)
    ELSE IF Dot(u, r) <= 0 THEN s = Rat(0, 1)
    ELSE LET g == GcdAll(u, Len(u))
             v == Listed([j \in 1..Len(u) |-> u[j] \div g])
         IN  RatMul(s, RatNorm(g, den)) = RatNorm(Dot(v, r), Dot(v, v))

\* C25: with the scale-fit toggle on, the scalar s recorded for a fold is
\* max(0, <Xb, resid> / <Xb, Xb>) over the rows of the training fold, hence
\* s >= 0; with the toggle off, or with X * beta identically zero on the
\* training fold, s = 1.
C25_ScaleIsNonNegativeLeastSquares ==
    \A k \in 1..Len(irBeta) :
        /\ irBeta[k].scale_s[1] >= 0 /\ irBeta[k].scale_s[2] > 0
        /\ ~irScale => irBeta[k].scale_s = Rat(1, 1)
        /\ irScale =>
              /\ FoldFinite(k)
              /\ ScaleIsLeastSquares(irBeta[k].scale_s, FoldXb(k), FoldResid(k), irBeta[k].beta.den)

\* The same on the folds whose training design matrix has no NaN; a fold
\* fitted on a NaN has s = 1.
ScaleOnFiniteFolds ==
    \A k \in 1..Len(irBeta) :
        /\ irBeta[k].scale_s[1] >= 0 /\ irBeta[k].scale_s[2] > 0
        /\ ~irScale => irBeta[k].scale_s = Rat(1, 1)
        /\ (irScale /\ FoldFinite(k)) =>
              ScaleIsLeastSquares(irBeta[k].scale_s, FoldXb(k), FoldResid(k), irBeta[k].beta.den)
        /\ (irScale /\ ~FoldFinite(k)) => irBeta[k].scale_s = Rat(1, 1)

\* Folds with a scale strictly between 0 and 1, with a scale of 0, and with
\* X * beta identically zero are all fitted.
ScaleCasesHappen ==
    /\ irPc = "done" /\ irScale
    /\ \E k \in 1..Len(irBeta) : FoldFinite(k) /\ irBeta[k].scale_s[1] > 0 /\ irBeta[k].scale_s # Rat(1, 1)

\* ---------------------------------------------------------------------------
\* The additive I^2R correction of a run
\* ---------------------------------------------------------------------------

\* The runs that receive a correction: those of the mask, each of which is
\* held out in exactly one fold.
Corrected(k) == I2rMask(irDf[k])
TooFewTrainingRows(k) == Len(I2rTrainRows(irDf, irDf[k].scenario)) < I2rColumns(irModel) + 1

CorrectionNonNegativeOrNaN ==
    irPc = "done" =>
        \A k \in 1..Len(irDf) :
            /\ Corrected(k) =>
                  /\ irLoss[k] # RatNone => (irLoss[k][1] >= 0 /\ irLoss[k][2] > 0)
                  /\ TooFewTrainingRows(k) => irLoss[k] = Rat(0, 1)
                  /\ irLoss[k] = RatNone =>
                        \E j \in 1..Len(irDf) :
                            /\ Corrected(j)
                            /\ IsNaN(irDf[j].battery_level0_pct) \/ IsNaN(irDf[j].thermal_cpu0_C)
            /\ ~Corrected(k) => irLoss[k] = RatNone

-----------------------------------------------------------------------------
(* fit_huber_irls on a design matrix that is the intercept column alone: the *)
(* least-squares solution is the weighted mean of y.  beta and the residuals *)
(* are held in thousandths and a weight enters a solve rounded to a          *)
(* thousandth; the scale, the standardized residuals and the weights are     *)
(* exact fractions of these.                                                 *)

HuberUnit == 10 * 10 * 10

\* The integer square root of a number below 1600000000: the hundreds first.
ISqrtHundreds(n) ==
    CHOOSE k \in 0..399 : (100 * k) * (100 * k) <= n /\ (100 * (k + 1)) * (100 * (k + 1)) > n
ISqrt(n) ==
    CHOOSE j \in {100 * h + d : h \in {ISqrtHundreds(n)}, d \in 0..99} : j * j <= n /\ (j + 1) * (j + 1) > n

\* a weight as a whole number of thousandths
Permille(w) ==
    IF w[1] < 2000000 THEN RoundDiv(HuberUnit * w[1], w[2]) ELSE RoundDiv(w[1], w[2] \div HuberUnit)
\* np.linalg.lstsq(X * sqrt(w), y * sqrt(w)) for X a column of ones
HuberLstsq(y, w) ==
    LET m == Listed([i \in 1..Len(y) |-> Permille(w[i])])
    IN  RoundDiv(HuberUnit * Dot(m, y), Dot(m, ConstCol(Len(y), 1)))
\* r = y - X @ beta
HuberResidual(y, beta) == Listed([i \in 1..Len(y) |-> HuberUnit * y[i] - beta])
\* s = 1.4826 * mad if mad > 0 else (np.std(r) if np.std(r) > 0 else 1.0)
HuberScale(r) ==
    IF HuberMad4(r) > 0 THEN RatNorm(7413 * HuberMad4(r), 20000)
    ELSE IF HuberVarN2(r) > 0 THEN RatNorm(ISqrt(HuberVarN2(r)), Len(r))
    ELSE Rat(HuberUnit, 1)
\* u = r / s
HuberStandardized(r, s) == Listed([i \in 1..Len(r) |-> RatNorm(r[i] * s[2], s[1])])
HuberWeightsAboveOne(u, c) ==
    Listed([i \in 1..Len(u) |->
        IF RatLeq(RatAbs(u[i]), Rat(1, 1)) THEN Rat(1, 1)
        ELSE RatMul(c, Rat(u[i][2], Abs(u[i][1])))])
\* _huber_weights(u, c): 1, and c / |u| where |u| > c
HuberWeights(u, c) ==
    Listed([i \in 1..Len(u) |->
        IF RatLeq(RatAbs(u[i]), c) THEN Rat(1, 1)
        ELSE RatMul(c, Rat(u[i][2], Abs(u[i][1])))])
\* np.max(np.abs(beta_new - beta)) < 1e-9: at a resolution of a thousandth, no
\* change at all
HuberConverged(betaNew, beta) == Abs(betaNew - beta) = 0

\* beta = np.linalg.lstsq(X, y)
HuberBegin ==
    /\ hPc = "call"
    /\ hBeta' = HuberLstsq(hY, ConstCol(Len(hY), Rat(1, 1)))
    /\ hPrev' = hBeta'
    /\ hPc' = "loop"
    /\ UNCHANGED <<hY, hC, hIters, hS, hW, hK>>

\* One pass of the loop body: r, s, u, w and beta_new, each computed once from
\* the one before; the pass either meets the test before "break" or does not.
HuberPass(stops) ==
    \E r \in {HuberResidual(hY, hBeta)} :
      \E s \in {HuberScale(r)} :
        \E u \in {HuberStandardized(r, s)} :
          \E w \in {HuberWeights(u, hC)} :
            \E betaNew \in {HuberLstsq(hY, w)} :
                /\ HuberConverged(betaNew, hBeta) = stops
                /\ hPrev' = hBeta
                /\ hS' = s
                /\ hW' = w
                /\ hBeta' = betaNew
                /\ hK' = hK + 1
                /\ UNCHANGED <<hY, hC, hIters>>

\* one pass of "for _ in range(iters)" that goes on to the next
HuberStep ==
    /\ hPc = "loop"
    /\ hK < hIters
    /\ HuberPass(FALSE)
    /\ hPc' = "loop"

\* the pass that ends in "break", and the return behind the loop
HuberBreak ==
    /\ hPc = "loop"
    /\ hK < hIters
    /\ HuberPass(TRUE)
    /\ hPc' = "done"

\* range(iters) is used up: return beta
HuberReturn ==
    /\ hPc = "loop"
    /\ hK >= hIters
    /\ hPc' = "done"
    /\ UNCHANGED <<hY, hC, hIters, hBeta, hPrev, hS, hW, hK>>

\* The calls: up to MaxHuberLen targets out of three values whose scale is a
\* fraction (a MAD above zero, or a standard deviation that is one), c = 1.5
\* (the default) or 0.5, and iters up to MaxHuberIters.
MaxHuberLen == 5
MaxHuberIters == 4
HuberTargets ==
    {y \in UNION {[1..n -> {0, 1, 4}] : n \in 2..MaxHuberLen} :
        \/ HuberMad4(y) > 0
        \/ ISqrt(HuberVarN2(y)) * ISqrt(HuberVarN2(y)) = HuberVarN2(y)}
HuberInit ==
    /\ hY \in HuberTargets
    /\ hC \in {Rat(3, 2), Rat(1, 2)}
    /\ hIters \in 0..MaxHuberIters
    /\ hBeta = 0 /\ hPrev = 0 /\ hS = <<1, 1>> /\ hW = <<>> /\ hK = 0
    /\ hPc = "call"

huberRestVars == <<socVars, tempVars, fitVars, looroVars, pmVars, evalVars, i2rVars, refitVars, rtVars, ancovaVars, readyVars, samplerVars>>
HuberRest == SocIdle /\ TempIdle /\ FitIdle /\ LooroIdle /\ PmIdle /\ EvalIdle /\ I2rIdle /\ RefitIdle /\ RtIdle /\ AncovaIdle /\ ReadyIdle /\ SamplerIdle

HuberRunInit == HuberInit /\ HuberRest

HuberNext ==
    \/ HuberBegin /\ UNCHANGED huberRestVars
    \/ HuberStep /\ UNCHANGED huberRestVars
    \/ HuberBreak /\ UNCHANGED huberRestVars
    \/ HuberReturn /\ UNCHANGED huberRestVars

\* The loop is a for loop of the interpreter: a call that has begun goes on.
SpecHuber == HuberRunInit /\ [][HuberNext]_vars /\ WF_vars(HuberNext)

\* The residuals of the last re-solve, and their standardized magnitudes.
HuberLastResidual == HuberResidual(hY, hPrev)
HuberScaleAsStated ==
    LET r == HuberLastResidual
    IN  IF HuberMad4(r) > 0 THEN 20000 * hS[1] = 7413 * HuberMad4(r) * hS[2]
        ELSE IF HuberVarN2(r) > 0
             THEN /\ (hS[1] * Len(r)) % hS[2] = 0
                  /\ ((hS[1] * Len(r)) \div hS[2]) * ((hS[1] * Len(r)) \div hS[2]) = HuberVarN2(r)
             ELSE hS = Rat(HuberUnit, 1)
\* |u[i]| <= c for u = r / s, multiplied out
HuberWithin(i) ==
    LET r == HuberLastResidual
    IN  RatLeq(Rat(Abs(r[i]) * hS[2], hS[1]), hC)
HuberWeightAsStated(i) ==
    LET r == HuberLastResidual
    IN  IF HuberWithin(i) THEN hW[i] = Rat(1, 1)
        ELSE /\ 0 < hW[i][1] /\ hW[i][1] < hW[i][2]
             /\ RatMul(hW[i], RatNorm(Abs(r[i]) * hS[2], hS[1])) = hC
HuberLoopInv ==
    /\ hK <= hIters
    /\ hK > 0 =>
          /\ HuberScaleAsStated
          /\ Len(hW) = Len(hY)
          /\ \A i \in 1..Len(hY) : HuberWeightAsStated(i)
    /\ (hPc = "loop" /\ hK > 0) => Abs(hBeta - hPrev) > 0
    /\ hPc = "done" => (hK = hIters \/ Abs(hBeta - hPrev) = 0)
    /\ (hPc = "done" /\ hK < hIters) => (hK > 0 /\ Abs(hBeta - hPrev) = 0)

\* C26: the Huber IRLS loop terminates.  It makes at most iters weighted
\* re-solves and stops as soon as the coefficient moved by less than the
\* tolerance; in every pass a sample's weight is 1 when its standardized
\* residual is at most c in magnitude and c / |u|, strictly between 0 and 1,
\* otherwise, and the scale is 1.4826 * MAD, or the standard deviation when
\* the MAD is zero, or 1.0 when that is zero too.
C26_HuberLoopTerminates == []HuberLoopInv /\ <>(hPc = "done")

\* A call that stopped early after more than one re-solve, with a sample
\* weighted down.
C26_Witness ==
    /\ hPc = "done"
    /\ hK > 1 /\ hK < hIters
    /\ \E i \in 1..Len(hW) : hW[i] # Rat(1, 1)

-----------------------------------------------------------------------------
(* ensure_device_ready (mp_power/adb.py, and its copy _ensure_device_ready in *)
(* adb_sample_power.py).  What adb answers is not the program's to choose:   *)
(* every command answers one of AdbAnswers, or does not answer within        *)
(* timeout_s, in which case subprocess.run raises TimeoutExpired.  An answer *)
(* is [rc, out, err], out and err as the words of the text.                  *)

AdbAnswers ==
    {[rc |-> 0, out |-> <<"device">>, err |-> <<>>],
     [rc |-> 0, out |-> <<"offline">>, err |-> <<>>],
     [rc |-> 1, out |-> <<>>, err |-> <<"error:", "device", "unauthorized.">>],
     [rc |-> 1, out |-> <<>>, err |-> <<"error:", "no", "devices/emulators", "found">>]}
ServerAnswers == {[rc |-> 0, out |-> <<>>, err |-> <<>>]}
Hung == [rc |-> -1, out |-> <<>>, err |-> <<"TimeoutExpired">>]

\* rc == 0 and out.strip() == "device"
ReadyIsDevice(a) == a.rc = 0 /\ a.out = <<"device">>
UnauthorizedInOut(a) == \E k \in 1..Len(a.out) : a.out[k] \in {"unauthorized", "unauthorized."}
\* "unauthorized" in (out + err)
ReadyUnauthorized(a) ==
    \E k \in 1..Len(a.out \o a.err) : (a.out \o a.err)[k] \in {"unauthorized", "unauthorized."}
\* one entry of the log: the command, its answer, and time.time() - t0 when it
\* was issued
Ran(cmd, a, at) == [cmd |-> cmd, rc |-> a.rc, out |-> a.out, err |-> a.err, at |-> at]

\* the initial check
ReadyInitialCheck ==
    /\ gPc = "call"
    /\ \E a \in AdbAnswers \cup {Hung} :
          /\ gLog' = Append(gLog, Ran("get-state", a, 0))
          /\ gPc' = IF a = Hung THEN "TimeoutExpired"
                    ELSE IF ReadyIsDevice(a) THEN "returned" ELSE "start"
    /\ UNCHANGED <<gTimeout, gClock>>

\* start-server, and t0 = time.time()
ReadyStartServer ==
    /\ gPc = "start"
    /\ \E a \in ServerAnswers \cup {Hung} :
          /\ gLog' = Append(gLog, Ran("start-server", a, 0))
          /\ gPc' = IF a = Hung THEN "TimeoutExpired" ELSE "poll"
    /\ gClock' = 0
    /\ UNCHANGED gTimeout

\* one pass of "while time.time() - t0 < timeout_s": the check takes d seconds,
\* the sleep one more
ReadyPoll ==
    /\ gPc = "poll"
    /\ gClock < gTimeout
    /\ \E a \in AdbAnswers \cup {Hung}, d \in {0, 1} :
          /\ gLog' = Append(gLog, Ran("get-state", a, gClock))
          /\ gPc' = IF a = Hung THEN "TimeoutExpired"
                    ELSE IF ReadyIsDevice(a) THEN "returned"
                    ELSE IF ReadyUnauthorized(a) THEN "SystemExit" ELSE "poll"
          /\ gClock' = IF gPc' = "poll" THEN gClock + d + 1 ELSE gClock + d
    /\ UNCHANGED gTimeout

\* the second chance behind the loop: kill-server, start-server, the final
\* check, each of which may not answer
ReadySecondChance ==
    /\ gPc = "poll"
    /\ gClock >= gTimeout
    /\ \E k \in ServerAnswers \cup {Hung}, s \in ServerAnswers \cup {Hung}, a \in AdbAnswers \cup {Hung} :
          IF k = Hung
          THEN gLog' = Append(gLog, Ran("kill-server", k, gClock)) /\ gPc' = "TimeoutExpired"
          ELSE IF s = Hung
          THEN /\ gLog' = gLog \o <<Ran("kill-server", k, gClock), Ran("start-server", s, gClock)>>
               /\ gPc' = "TimeoutExpired"
          ELSE /\ gLog' = gLog \o <<Ran("kill-server", k, gClock), Ran("start-server", s, gClock),
                                    Ran("get-state", a, gClock)>>
               /\ gPc' = IF a = Hung THEN "TimeoutExpired"
                         ELSE IF ReadyIsDevice(a) THEN "returned" ELSE "TimeoutError"
    /\ UNCHANGED <<gTimeout, gClock>>

MaxReadyTimeout == 3
ReadyInit == gTimeout \in 1..MaxReadyTimeout /\ gClock = 0 /\ gLog = <<>> /\ gPc = "call"

readyRestVars == <<socVars, tempVars, fitVars, looroVars, pmVars, evalVars, i2rVars, refitVars, rtVars, ancovaVars, huberVars, samplerVars>>
ReadyRest == SocIdle /\ TempIdle /\ FitIdle /\ LooroIdle /\ PmIdle /\ EvalIdle /\ I2rIdle /\ RefitIdle /\ RtIdle /\ AncovaIdle /\ HuberIdle /\ SamplerIdle

ReadyRunInit == ReadyInit /\ ReadyRest

ReadyNext ==
    \/ ReadyInitialCheck /\ UNCHANGED readyRestVars
    \/ ReadyStartServer /\ UNCHANGED readyRestVars
    \/ ReadyPoll /\ UNCHANGED readyRestVars
    \/ ReadySecondChance /\ UNCHANGED readyRestVars

SpecReady == ReadyRunInit /\ [][ReadyNext]_vars

\* What the log says: which of its entries reported "device", which said
\* "unauthorized", and where the kill-server is.
SaidDevice(k) == gLog[k].cmd = "get-state" /\ gLog[k].rc = 0 /\ gLog[k].out = <<"device">>
SaidUnauthorized(k) ==
    \E w \in {gLog[k].out[j] : j \in 1..Len(gLog[k].out)} \cup {gLog[k].err[j] : j \in 1..Len(gLog[k].err)} :
        w \in {"unauthorized", "unauthorized."}
Answered(k) == gLog[k].rc >= 0
Kills == {k \in 1..Len(gLog) : gLog[k].cmd = "kill-server"}
Polls == {k \in 3..Len(gLog) : gLog[k].cmd = "get-state" /\ \A j \in Kills : k < j}
LogInOrder ==
    /\ Len(gLog) >= 1 => gLog[1].cmd = "get-state"
    /\ Len(gLog) >= 2 => gLog[2].cmd = "start-server"
    /\ \A k \in 3..Len(gLog) :
          \/ k \in Polls
          \/ k \in Kills /\ \A j \in 3..(k - 1) : j \in Polls
          \/ k - 1 \in Kills /\ gLog[k].cmd = "start-server"
          \/ k - 2 \in Kills /\ gLog[k].cmd = "get-state" /\ k = Len(gLog)
    /\ Cardinality(Kills) <= 1

\* C28: ensure_device_ready returns only when the last adb get-state answered
\* exactly "device"; the commands come in the order initial check,
\* start-server, polls, kill-server, start-server, final check; kill-server
\* is issued only when the polling loop has run out of time; a poll that
\* answers "unauthorized" ends the call with SystemExit at once; and a final
\* check that answers anything but "device" ends it with TimeoutError.
C28_ReadyOrderAndOutcome ==
    /\ LogInOrder
    /\ gPc = "returned" => SaidDevice(Len(gLog))
    /\ \A k \in 1..Len(gLog) : (SaidDevice(k) \/ ~Answered(k)) => k = Len(gLog)
    /\ \A k \in Kills : gLog[k].at >= gTimeout
    /\ \A k \in Polls : gLog[k].at < gTimeout
    /\ \A k \in Polls :
          (Answered(k) /\ SaidUnauthorized(k) /\ ~SaidDevice(k)) => (k = Len(gLog) /\ gPc = "SystemExit")
    /\ gPc = "SystemExit" => (Len(gLog) \in Polls /\ SaidUnauthorized(Len(gLog)))
    /\ gPc = "TimeoutError" <=>
          /\ Len(gLog) - 2 \in Kills
          /\ Answered(Len(gLog)) /\ ~SaidDevice(Len(gLog))
    /\ gPc = "TimeoutExpired" <=> (gLog # <<>> /\ ~Answered(Len(gLog)))

\* A call that went through every stage: polls that used up the timeout, the
\* second chance, and a final check that found the device.
C28_Witness ==
    /\ gPc = "returned"
    /\ Kills # {}
    /\ Cardinality(Polls) >= 2

-----------------------------------------------------------------------------
(* adb_sample_power: _delta_time_in_state and the sampling loop of main.  A  *)
(* snapshot is a dict policy -> (freq -> time); the key                      *)
(* "cpu_p<policy>_freq<freq>_dt" of a delta is held as the pair of the two.  *)

\* The snapshots read from the device: per policy no table (the policy is
\* then left out of the dict) or one of a few tables.
TisTables0 == {300 :> a : a \in {1, 3}} \cup {(300 :> a) @@ (600 :> 2) : a \in {1, 3}}
TisTables4 == {1000 :> 5, 1000 :> 0}
TisSnapshot(a, b) ==
    [p \in (IF a = <<>> THEN {} ELSE {0}) \cup (IF b = <<>> THEN {} ELSE {4}) |-> IF p = 0 THEN a ELSE b]
TisSnapshots == {TisSnapshot(a, b) : a \in TisTables0 \cup {<<>>}, b \in TisTables4 \cup {<<>>}}
TisKeys(current) == UNION {{<<p, f>> : f \in DOMAIN current[p]} : p \in DOMAIN current}

DeltaNoReset(last, current) ==
    [k \in TisKeys(current) |->
        IF k[1] \in DOMAIN last /\ last[k[1]] # <<>> /\ k[2] \in DOMAIN last[k[1]]
        THEN current[k[1]][k[2]] - last[k[1]][k[2]]
        ELSE 0]
\* deltas of _delta_time_in_state(state, current) for state.last = last
DeltaTimeInState(last, current) ==
    [k \in TisKeys(current) |->
        LET cur_t == current[k[1]][k[2]]
            prev_t == IF k[1] \in DOMAIN last /\ last[k[1]] # <<>> /\ k[2] \in DOMAIN last[k[1]]
                      THEN last[k[1]][k[2]] ELSE cur_t
        IN  IF cur_t - prev_t < 0 THEN 0 ELSE cur_t - prev_t]

\* One call: the deltas are returned and state.last = current.
DeltaCall(current) ==
    /\ sPrev' = sLast
    /\ sSnap' = current
    /\ sDeltas' = DeltaTimeInState(sLast, current)
    /\ sLast' = current
    /\ sCalls' = sCalls + 1

\* What _ensure_device_ready and the reads of one pass can raise, and what
\* "except TimeoutError" and "except Exception" make of it; SystemExit is no
\* Exception.
Raised == {"TimeoutError", "TimeoutExpired", "ValueError", "SystemExit"}
IsException(e) == e # "SystemExit"
AdbError(e) == IF e = "TimeoutError" THEN <<"timeout">> ELSE <<"error", e>>

\* The first _ensure_device_ready raises: "ADB device not ready".
SamplerNotReady ==
    /\ sPc = "setup"
    /\ sPc' = "exited"
    /\ UNCHANGED <<sDuration, sClock, sSeq, sIter, sRows, sPrev, sSnap, sLast, sDeltas, sCalls>>

\* The first snapshot fixes the delta columns; t_end is set; seq = 0.
SamplerSetup ==
    /\ sPc = "setup"
    /\ \E current \in TisSnapshots : DeltaCall(current)
    /\ sClock' = 0
    /\ sSeq' = 0
    /\ sPc' = "loop"
    /\ UNCHANGED <<sDuration, sIter, sRows>>

\* A pass of "while time.time() < t_end" in which nothing is raised.
SamplerPassOk ==
    /\ sPc = "loop"
    /\ sClock < sDuration
    /\ \E current \in TisSnapshots : DeltaCall(current)
    /\ sRows' = Append(sRows, [seq |-> sSeq, adb_error |-> <<>>])
    /\ sSeq' = sSeq + 1
    /\ sIter' = sIter + 1
    /\ \E d \in {1, 2} : sClock' = sClock + d
    /\ UNCHANGED <<sDuration, sPc>>

\* A pass in which _ensure_device_ready or a read raises an Exception.
SamplerPassFailed ==
    /\ sPc = "loop"
    /\ sClock < sDuration
    /\ \E e \in Raised :
          /\ IsException(e)
          /\ sRows' = Append(sRows, [seq |-> sSeq, adb_error |-> AdbError(e)])
    /\ sSeq' = sSeq + 1
    /\ sIter' = sIter + 1
    /\ \E d \in {1, 2} : sClock' = sClock + d
    /\ UNCHANGED <<sDuration, sPrev, sSnap, sLast, sDeltas, sCalls, sPc>>

\* A pass in which _ensure_device_ready raises SystemExit: neither except
\* clause catches it and the program ends.
SamplerPassExit ==
    /\ sPc = "loop"
    /\ sClock < sDuration
    /\ \E e \in Raised : ~IsException(e)
    /\ sIter' = sIter + 1
    /\ sPc' = "exited"
    /\ UNCHANGED <<sDuration, sClock, sSeq, sRows, sPrev, sSnap, sLast, sDeltas, sCalls>>

\* time.time() >= t_end
SamplerEnd ==
    /\ sPc = "loop"
    /\ sClock >= sDuration
    /\ sPc' = "done"
    /\ UNCHANGED <<sDuration, sClock, sSeq, sIter, sRows, sPrev, sSnap, sLast, sDeltas, sCalls>>

MaxDuration == 3
SamplerInit ==
    /\ sDuration \in 1..MaxDuration
    /\ sClock = 0 /\ sSeq = 0 /\ sIter = 0 /\ sRows = <<>>
    /\ sPrev = NoSnapshot /\ sSnap = NoSnapshot /\ sLast = NoSnapshot /\ sDeltas = <<>> /\ sCalls = 0
    /\ sPc = "setup"

samplerRestVars == <<socVars, tempVars, fitVars, looroVars, pmVars, evalVars, i2rVars, refitVars, rtVars, ancovaVars, huberVars, readyVars>>
SamplerRest == SocIdle /\ TempIdle /\ FitIdle /\ LooroIdle /\ PmIdle /\ EvalIdle /\ I2rIdle /\ RefitIdle /\ RtIdle /\ AncovaIdle /\ HuberIdle /\ ReadyIdle

SamplerRunInit == SamplerInit /\ SamplerRest

SamplerNext ==
    \/ SamplerNotReady /\ UNCHANGED samplerRestVars
    \/ SamplerSetup /\ UNCHANGED samplerRestVars
    \/ SamplerPassOk /\ UNCHANGED samplerRestVars
    \/ SamplerPassFailed /\ UNCHANGED samplerRestVars
    \/ SamplerPassExit /\ UNCHANGED samplerRestVars
    \/ SamplerEnd /\ UNCHANGED samplerRestVars

SpecSampler == SamplerRunInit /\ [][SamplerNext]_vars

\* C29: every pass of the sampling loop that was begun has written exactly
\* one row and incremented seq, whether or not the reads of the pass
\* succeeded, so that the rows carry the sequence numbers 0, 1, 2, ...
C29_EveryPassWritesARow ==
    /\ Len(sRows) = sIter
    /\ sSeq = sIter
    /\ \A k \in 1..Len(sRows) : sRows[k].seq = k - 1

\* What holds: the rows written are numbered 0, 1, 2, ... and seq counts
\* them; a pass without a row is the last one, ended by SystemExit.
RowsContiguous ==
    /\ sSeq = Len(sRows)
    /\ \A k \in 1..Len(sRows) : sRows[k].seq = k - 1
    /\ sIter \in {Len(sRows), Len(sRows) + 1}
    /\ sIter = Len(sRows) + 1 => sPc = "exited"

\* C30: every delta of the last call of _delta_time_in_state is >= 0: the
\* difference to the previous counter when the counter did not decrease, 0
\* when it did, 0 for a policy or a frequency the previous snapshot did not
\* have (the first snapshot has no previous one); and the stored state is the
\* snapshot passed in.
C30_DeltasNonNegative ==
    sCalls > 0 =>
        /\ sLast = sSnap
        /\ sCalls = 1 => sPrev = NoSnapshot
        /\ DOMAIN sDeltas = {<<p, f>> : p \in {0, 4}, f \in {300, 600, 1000}}
                                \cap {k \in DOMAIN sDeltas : k[1] \in DOMAIN sSnap /\ k[2] \in DOMAIN sSnap[k[1]]}
        /\ \A p \in DOMAIN sSnap : \A f \in DOMAIN sSnap[p] :
              /\ <<p, f>> \in DOMAIN sDeltas
              /\ sDeltas[<<p, f>>] >= 0
              /\ IF p \in DOMAIN sPrev /\ f \in DOMAIN sPrev[p]
                 THEN IF sSnap[p][f] >= sPrev[p][f]
                      THEN sDeltas[<<p, f>>] = sSnap[p][f] - sPrev[p][f]
                      ELSE sDeltas[<<p, f>>] = 0
                 ELSE sDeltas[<<p, f>>] = 0

\* A call after the first that saw a counter advance, a counter reset and a
\* frequency the previous snapshot did not have.
C30_Witness ==
    /\ sCalls > 1
    /\ \E k \in DOMAIN sDeltas : sDeltas[k] > 0
    /\ \E p \in DOMAIN sSnap \cap DOMAIN sPrev :
          \E f \in DOMAIN sSnap[p] \cap DOMAIN sPrev[p] : sSnap[p][f] < sPrev[p][f]
    /\ \E p \in DOMAIN sSnap \cap DOMAIN sPrev : \E f \in DOMAIN sSnap[p] : f \notin DOMAIN sPrev[p]

====
